---- MODULE Spec2Model ----
(***************************************************************************)
(* Crawl orchestrator and job lifecycle of sitemapscraper                  *)
(* (src/src/crawl.js, with the URL canonicalizer it imports, which lives   *)
(* in src/src/extract.js lines 228-358).                                   *)
(*                                                                         *)
(* One crawl job is modelled: the row of crawl_jobs, the rows of pages,    *)
(* the in-process state of runCrawl, the two watchdog callbacks, the       *)
(* un-awaited progress writes in flight, and a second invocation of        *)
(* runCrawl for the same job id (resume).                                  *)
(*                                                                         *)
(* Every await of the source is a suspension point: an action ends where   *)
(* the code awaits and the next action of that coroutine is the return of  *)
(* the awaited call, with the outcome chosen by the environment.           *)
(* Synchronous code between two awaits is one atomic step.                 *)
(***************************************************************************)
EXTENDS Integers, Sequences, FiniteSets, TLC

(***************************************************************************)
(* URLs.  A URL string is a record; kind tells how `new URL` treats it:    *)
(*   "abs"  an absolute http(s) URL                                        *)
(*   "rel"  an absolute-path reference such as /about (needs a base)       *)
(*   "mailto", "hash"  text starting with mailto: or # (the crawl skips    *)
(*          these before it resolves them)                                 *)
(*   "bad"  text that `new URL` rejects even with a base                   *)
(* hostname is "www." repeated www times followed by host.                 *)
(* pathname is "/" followed by the segments of path joined by "/": the     *)
(* root is <<"">>, /about is <<"about">>, /about/ is <<"about", "">>.      *)
(***************************************************************************)
Null == [kind |-> "null"]

Abs(protocol, www, host, port, path, search, hash) ==
    [kind |-> "abs", protocol |-> protocol, www |-> www, host |-> host,
     port |-> port, path |-> path, search |-> search, hash |-> hash]

Rel(path, search, hash) ==
    [kind |-> "rel", protocol |-> "", www |-> 0, host |-> "",
     port |-> "", path |-> path, search |-> search, hash |-> hash]

Other(kind) ==
    [kind |-> kind, protocol |-> "", www |-> 0, host |-> "",
     port |-> "", path |-> <<>>, search |-> <<>>, hash |-> ""]

Last(s) == s[Len(s)]

Front(s) == SubSeq(s, 1, Len(s) - 1)

\* The WHATWG parser drops a port that is the default of the scheme.
DefaultPort(protocol, port) ==
    \/ protocol = "http:" /\ port = "80"
    \/ protocol = "https:" /\ port = "443"

\* new URL(url [, base]): the parsed URL, or Null when it throws.
NewURL(url, base) ==
    CASE url.kind = "abs" ->
           [url EXCEPT !.port = IF DefaultPort(url.protocol, url.port)
                                THEN "" ELSE url.port]
      [] url.kind = "rel" /\ base.kind = "abs" ->
           [base EXCEPT !.kind = "abs",
                        !.port = IF DefaultPort(base.protocol, base.port)
                                 THEN "" ELSE base.port,
                        !.path = url.path, !.search = url.search,
                        !.hash = url.hash]
      [] OTHER -> Null

\* pathname.replace(/\/+/g, '/'): empty segments vanish, except that a
\* trailing slash (an empty last segment) stays.
CollapseSlashes(path) ==
    LET kept == SelectSeq(path, LAMBDA s : s # "")
    IN  IF Last(path) = "" THEN Append(kept, "") ELSE kept

\* remove the trailing slash unless the pathname is the root
StripTrailingSlash(path) ==
    IF Len(path) > 1 /\ Last(path) = "" THEN Front(path) ELSE path

\* normalizeUrl that keeps the query string
normalizeUrlKeepsQuery(url) ==
    LET parsedUrl == NewURL(url, Null)
    IN  IF parsedUrl = Null THEN Null
        ELSE [parsedUrl EXCEPT
                !.www = IF parsedUrl.www > 0 THEN parsedUrl.www - 1 ELSE 0,
                !.port = IF DefaultPort(parsedUrl.protocol, parsedUrl.port)
                         THEN "" ELSE parsedUrl.port,
                !.hash = "",
                !.path = StripTrailingSlash(CollapseSlashes(parsedUrl.path))]

normalizeUrl(url) ==
    LET parsedUrl == NewURL(url, Null)
    IN  IF parsedUrl = Null THEN Null
        ELSE [parsedUrl EXCEPT
                !.www = IF parsedUrl.www > 0 THEN parsedUrl.www - 1 ELSE 0,
                !.port = IF DefaultPort(parsedUrl.protocol, parsedUrl.port)
                         THEN "" ELSE parsedUrl.port,
                !.hash = "",
                !.search = <<>>,
                !.path = StripTrailingSlash(CollapseSlashes(parsedUrl.path))]

\* hostname without one leading "www.", or Null
extractPrimaryDomain(url) ==
    LET parsedUrl == NewURL(url, Null)
    IN  IF parsedUrl = Null THEN Null
        ELSE [kind |-> "domain",
              www |-> IF parsedUrl.www > 0 THEN parsedUrl.www - 1 ELSE 0,
              host |-> parsedUrl.host]

\* isPrimaryDomain that also accepts the subdomains of the primary domain
isPrimaryDomainOrSubdomain(url, primaryDomain) ==
    LET urlDomain == extractPrimaryDomain(url)
    IN  \/ urlDomain = primaryDomain
        \/ /\ urlDomain # Null /\ primaryDomain # Null
           /\ urlDomain.www = primaryDomain.www
           /\ urlDomain.host = "blog.example.com"
           /\ primaryDomain.host = "example.com"

isPrimaryDomain(url, primaryDomain) ==
    extractPrimaryDomain(url) = primaryDomain

normalizeAndClassifyUrl(url, baseUrl, primaryDomain) ==
    LET parsedUrl == NewURL(url, baseUrl)
        normalized == IF parsedUrl = Null THEN Null ELSE normalizeUrl(parsedUrl)
    IN  IF normalized = Null
        THEN [normalized |-> Null, isExternal |-> TRUE]
        ELSE [normalized |-> normalized,
              isExternal |-> extractPrimaryDomain(normalized) # primaryDomain]

\* new URL(url, baseUrl).href, or Null
resolveUrl(url, baseUrl) == NewURL(url, baseUrl)

(***************************************************************************)
(* Limits.  MAX_PAGES, MAX_DEPTH and the two watchdog periods are the      *)
(* program's constants scaled to the size of the modelled sites: time is   *)
(* counted in ticks, a stall is more than STALL_DETECTION_MS ticks without *)
(* a fetch attempt, the ceiling is MAX_RUNTIME_MS ticks after the start.   *)
(***************************************************************************)
MAX_PAGES == 3

MAX_DEPTH == 1

MAX_RUNTIME_MS == 3

STALL_DETECTION_MS == 1

\* scaled like MAX_PAGES: one processed page without a new entry
MAX_ITERATIONS_WITHOUT_NEW_PAGES == 1

\* the clock stops at MaxClock ticks
MaxClock == 3

\* runCrawl is invoked at most MaxRuns times for the job id
MaxRuns == 2

\* at most MaxFaults fetch or store calls of a behaviour fail
MaxFaults == 1

\* at most MaxInflight un-awaited progress writes are outstanding at once
MaxInflight == 1

NON_HTML_EXTENSIONS == {"pdf", "jpg", "css", "js", "zip", "mp4", "doc"}

\* pathname.split('.').pop() of the path segments the model uses
Extension(path) ==
    CASE Last(path) = "file.pdf" -> "pdf"
      [] Last(path) = "logo.jpg" -> "jpg"
      [] OTHER -> "none"

\* shouldSkipUrl(url).skip: the text starts with mailto:, tel:, javascript:
\* or #, or it parses WITHOUT a base and its extension is on the deny-list.
shouldSkipUrl(url) ==
    \/ url.kind \in {"mailto", "hash"}
    \/ /\ NewURL(url, Null) # Null
       /\ Extension(NewURL(url, Null).path) \in NON_HTML_EXTENSIONS

(***************************************************************************)
(* The crawled sites: what the fetcher returns.                            *)
(***************************************************************************)
Home == <<"">>

Example(www, path, search, hash) ==
    Abs("https:", www, "example.com", "", path, search, hash)

ExternalOrg == Abs("https:", 0, "external.org", "", Home, <<>>, "")

BlogSub == Abs("https:", 0, "blog.example.com", "", Home, <<>>, "")

Utm == <<[key |-> "utm_source", value |-> "x"]>>

Sites == {"about", "wide"}

\* the anchors of the page served at the (normalized) url, in document order
SiteLinks(site, url) ==
    CASE site = "about" /\ url.host = "example.com" /\ url.path = Home ->
           << Rel(<<"about">>, <<>>, ""),
              Rel(<<"about", "">>, <<>>, ""),
              Example(1, <<"about">>, Utm, ""),
              ExternalOrg >>
      [] site = "about" /\ url.host = "example.com" /\ url.path = <<"about">> ->
           << Rel(Home, <<>>, ""),
              Rel(<<"about">>, <<>>, "team") >>
      [] site = "wide" /\ url.host = "example.com" /\ url.path = Home ->
           << Rel(<<"a">>, <<>>, ""),
              BlogSub,
              Rel(<<"file.pdf">>, <<>>, ""),
              Other("mailto"),
              Rel(<<"b">>, <<>>, ""),
              Rel(<<"c">>, <<>>, "") >>
      [] site = "wide" /\ url.host = "example.com" /\ url.path = <<"a">> ->
           << Rel(<<"d">>, <<>>, ""),
              Rel(Home, <<>>, ""),
              Example(0, <<"", "a", "">>, <<>>, "") >>
      [] site = "wide" /\ url.host = "example.com" /\ url.path = <<"b">> ->
           << Rel(<<"a">>, <<>>, ""),
              ExternalOrg >>
      [] url.host = "external.org" ->
           << Rel(<<"x">>, <<>>, ""),
              Example(0, <<"a">>, <<>>, "") >>
      [] OTHER -> << >>

\* where the server may redirect a request for url (besides serving it)
Redirects(site, url) ==
    IF site = "wide" /\ url.path = <<"a">> THEN {ExternalOrg} ELSE {}

\* job.domain as given to POST /crawl: a host name without a scheme, a host
\* name with two www. prefixes, and text that is no URL
JobDomains ==
    { [kind |-> "host", www |-> 0, host |-> "example.com"],
      [kind |-> "host", www |-> 2, host |-> "example.com"],
      [kind |-> "bad", www |-> 0, host |-> ""] }

\* domain.startsWith('http') ? domain : `https://${domain}`
SeedUrl(domain) ==
    IF domain.kind = "host"
    THEN Abs("https:", domain.www, domain.host, "", Home, <<>>, "")
    ELSE Other("bad")

(***************************************************************************)
(* State                                                                   *)
(***************************************************************************)
VARIABLES
    site,                  \* the site the fetcher talks to
    job,                   \* the row of crawl_jobs
    pages,                 \* the rows of pages of this job, in insert order
    run,                   \* invocations of runCrawlWithErrorHandling so far
    alive,                 \* the process has not called process.exit
    pc,                    \* the await runCrawlWithErrorHandling is at
    queue, seenUrls, pagesMap, incomingLinksMap, externalLinksRegistry,
    pagesCrawled, totalDuplicatesSkipped, iterationsWithoutNewPages,
    cur,                   \* the loop iteration's locals
    idx,                   \* position of the reconciliation loop in pagesMap
    caught,                \* error.message in the catch of
                           \* runCrawlWithErrorHandling
    timeoutId, stallCheckInterval,
    crawlStartTime, lastActivityTime,
    now,                   \* Date.now()
    wd,                    \* the watchdog callback that has fired, if any
    inflight,              \* un-awaited progress writes not yet applied
    faults,                \* calls that have failed so far
    edges,                 \* history: internal (source, target) links found
    fetched,               \* history: normalized urls fetched by this run
    prevJob,               \* history: the job row when this run started
    prevPages,             \* history: the pages rows when this run started
    pushed,                \* history: the queue.push calls of this run
    lastSuccessTime,       \* history: when a page was last processed
    starved,               \* history: time went on after the loop had been
                           \* longer than STALL_DETECTION_MS without a
                           \* processed page
    selectRefused          \* history: a select of the job's pages came back
                           \* with an error

vars == << site, job, pages, run, alive, pc, queue, seenUrls, pagesMap,
           incomingLinksMap, externalLinksRegistry, pagesCrawled,
           totalDuplicatesSkipped, iterationsWithoutNewPages, cur, idx,
           caught,
           timeoutId, stallCheckInterval, crawlStartTime,
           lastActivityTime, now, wd,
           inflight, faults, edges, fetched, prevJob, prevPages, pushed,
           lastSuccessTime, starved, selectRefused >>

\* The content-extraction pipeline (src/setup-git.sh, content-extraction.js)
VARIABLES
    crawledPages,          \* the rows of pages of the crawl job, in ascending
                           \* order of normalized_url
    page_content,          \* the rows of page_content of the crawl job, by
                           \* normalized_url
    extractionJob,         \* the row of content_extraction_jobs
    xrun,                  \* extraction jobs started so far
    xpc,                   \* the await runContentExtraction is at
    allPages,              \* its locals
    extractPages,          \* `pages`: the pages this run is to process
    batchStart,            \* `i` of the batch loop
    workers,               \* per page of extractPages, where the async
                           \* function of batch.map is
    pagesExtracted, pagesFailed, failedUrls,
    dbCount,               \* the count of page_content rows read at the end,
                           \* << >> while undefined
    extractError,          \* error.message in the catch of
                           \* runContentExtraction
    xfaults,               \* calls of the pipeline that have failed so far
    fetchLog,              \* history: calls of extractPageContent of this run
    prevContent,           \* history: page_content when this run started
    prevExtractionJob      \* history: the row of the job before this one

xvars == << crawledPages, page_content, extractionJob, xrun, xpc, allPages,
            extractPages, batchStart, workers, pagesExtracted, pagesFailed,
            failedUrls, dbCount, extractError, xfaults, fetchLog, prevContent,
            prevExtractionJob >>

\* The URL canonicalizer and the scope predicate applied to given URLs
VARIABLES
    urlA, urlB,            \* two URL strings
    ustep,                 \* what has been applied to them so far
    normA, normB,          \* normalizeUrl(urlA), normalizeUrl(urlB)
    renormA,               \* normalizeUrl(normA)
    scope                  \* the scope decisions on urlA for a primary domain

uvars == << urlA, urlB, ustep, normA, normB, renormA, scope >>

\* GET /crawl/:jobId/pages (src/unnamed/part_004)
VARIABLES
    storedJob,             \* the columns of the crawl_jobs row the handler reads
    storedPages,           \* the rows of pages of the job, in ascending order
                           \* of normalized_url
    gstep,                 \* the await the handler is at
    response               \* what the handler has sent

gvars == << storedJob, storedPages, gstep, response >>

\* extractSchema / extractPageContent (src/unnamed/part_001) applied to the
\* JSON-LD scripts of a page
VARIABLES
    scripts,               \* the contents of the ld+json scripts of the page,
                           \* in document order
    sstep,                 \* where extractPageContent is
    content                \* the content object it has built

svars == << scripts, sstep, content >>

\* the server process (src/unnamed/part_004) with the crawls that POST /crawl
\* has started in it
VARIABLES
    serverAlive,           \* FALSE once process.exit has run
    crawls,                \* per job id: the stored row and the locals of
                           \* its runCrawl call
    ptime,                 \* Date.now() of the server process
    exitedBy               \* the job whose watchdog called process.exit

pvars == << serverAlive, crawls, ptime, exitedBy >>

notCrawl == << xvars, uvars, gvars, svars, pvars >>

notExtraction == << vars, uvars, gvars, svars, pvars >>

notUrls == << vars, xvars, gvars, svars, pvars >>

notPagesRead == << vars, xvars, uvars, svars, pvars >>

notSchema == << vars, xvars, uvars, gvars, pvars >>

notServer == << vars, xvars, uvars, gvars, svars >>

NULL == "null"

EmptyMap == << >>

NoEntry == [normalized_url |-> Null, depth |-> 0, original_url |-> Null,
            fetchUrl |-> Null]

NoWatchdog == [pc |-> "idle", reason |-> NULL, payload |-> EmptyMap]

StoreOutcomes == {"ok", "error", "throw"}

\* the environment lets a call end with outcome o
Outcome(o) ==
    /\ o \notin {"ok", "html"} => faults < MaxFaults
    /\ faults' = IF o \in {"ok", "html"} THEN faults ELSE faults + 1

Terminal == {"completed", "failed"}

\* Map.get(k) || default
Get(map, k, default) == IF k \in DOMAIN map THEN map[k] ELSE default

\* Map.set(k, v)
Set(map, k, v) == [x \in DOMAIN map \cup {k} |-> IF x = k THEN v ELSE map[x]]

\* pagesMap is kept as the sequence of its values in insertion order
Keys(pm) == { pm[i].normalized_url : i \in 1..Len(pm) }

Has(pm, url) == url \in Keys(pm)

PutPage(pm, page) ==
    IF Has(pm, page.normalized_url)
    THEN [i \in 1..Len(pm) |->
            IF pm[i].normalized_url = page.normalized_url THEN page ELSE pm[i]]
    ELSE Append(pm, page)

seedUrl == SeedUrl(job.domain)

primaryDomain == extractPrimaryDomain(seedUrl)

seedNormalizedForQueue == normalizeUrl(seedUrl)

(***************************************************************************)
(* updateJobStatus: the update it sends, and the effect of an update on    *)
(* the row (only the columns the update names change).                     *)
(***************************************************************************)
\* updateData that leaves out the metadata of the caller
updateDataStatusOnly(status, metadata) ==
    CASE status = "completed" -> [status |-> status, completed_at |-> "set"]
      [] status = "failed" -> [status |-> status, failed_at |-> "set"]
      [] OTHER -> [status |-> status, last_activity_at |-> "set"]

updateData(status, metadata) ==
    (CASE status = "completed" -> [status |-> status, completed_at |-> "set"]
       [] status = "failed" -> [status |-> status, failed_at |-> "set"]
       [] OTHER -> [status |-> status, last_activity_at |-> "set"])
    @@ metadata

ApplyUpdate(row, data) ==
    [f \in DOMAIN row |-> IF f \in DOMAIN data THEN data[f] ELSE row[f]]

Counters(pm, crawled, dups) ==
    [pages_discovered |-> Len(pm), pages_crawled |-> crawled,
     duplicates_skipped |-> dups]

\* no extraction job has been started
NoExtraction ==
    /\ page_content = EmptyMap
    /\ extractionJob = EmptyMap
    /\ xrun = 0
    /\ xpc = "idle"
    /\ allPages = << >>
    /\ extractPages = << >>
    /\ batchStart = 0
    /\ workers = << >>
    /\ pagesExtracted = 0
    /\ pagesFailed = 0
    /\ failedUrls = << >>
    /\ dbCount = << >>
    /\ extractError = NULL
    /\ xfaults = 0
    /\ fetchLog = << >>
    /\ prevContent = EmptyMap
    /\ prevExtractionJob = EmptyMap

ExtractionAtRest ==
    /\ crawledPages = << >>
    /\ NoExtraction

Unset == [kind |-> "unset"]

\* nothing has been given to the canonicalizer
UrlsAtRest ==
    /\ urlA = Unset /\ urlB = Unset
    /\ ustep = "idle"
    /\ normA = Unset /\ normB = Unset /\ renormA = Unset
    /\ scope = Unset

\* no request for the pages of the job has been made
PagesReadAtRest ==
    /\ storedJob = Unset
    /\ storedPages = << >>
    /\ gstep = "idle"
    /\ response = Unset

\* no page has been given to extractPageContent
SchemaAtRest ==
    /\ scripts = << >>
    /\ sstep = "idle"
    /\ content = Unset

\* the jobs POST /crawl can be asked to start
JobIds == {1, 2}

\* a job id for which POST /crawl has not been called
NotPosted ==
    [pc |-> "none", status |-> "none", stop_reason |-> NULL,
     timeoutId |-> "unset", stallCheckInterval |-> "unset",
     crawlStartTime |-> 0, lastActivityTime |-> 0, pagesCrawled |-> 0,
     wd |-> "idle"]

\* the server runs and no POST /crawl has arrived
ServerAtRest ==
    /\ serverAlive = TRUE
    /\ crawls = [j \in JobIds |-> NotPosted]
    /\ ptime = 0
    /\ exitedBy = 0

\* no crawl has been started
CrawlInit ==
    /\ site \in Sites
    /\ job \in { [domain |-> d, status |-> "running", stop_reason |-> NULL,
                  error_message |-> NULL, pages_discovered |-> 0,
                  pages_crawled |-> 0, duplicates_skipped |-> 0,
                  completed_at |-> NULL, failed_at |-> NULL,
                  last_activity_at |-> NULL,
                  external_links |-> EmptyMap] : d \in JobDomains }
    /\ pages = << >>
    /\ run = 0
    /\ alive = TRUE
    /\ pc = "idle"
    /\ queue = << >>
    /\ seenUrls = {}
    /\ pagesMap = << >>
    /\ incomingLinksMap = EmptyMap
    /\ externalLinksRegistry = EmptyMap
    /\ pagesCrawled = 0
    /\ totalDuplicatesSkipped = 0
    /\ iterationsWithoutNewPages = 0
    /\ cur = NoEntry
    /\ idx = 0
    /\ caught = NULL
    /\ timeoutId = "none"
    /\ stallCheckInterval = "none"
    /\ crawlStartTime = 0
    /\ lastActivityTime = 0
    /\ now = 0
    /\ wd = NoWatchdog
    /\ inflight = {}
    /\ faults = 0
    /\ edges = {}
    /\ fetched = {}
    /\ prevJob = job
    /\ prevPages = << >>
    /\ pushed = << >>
    /\ lastSuccessTime = 0
    /\ starved = FALSE
    /\ selectRefused = FALSE

Init ==
    /\ CrawlInit
    /\ ExtractionAtRest
    /\ UrlsAtRest /\ PagesReadAtRest /\ SchemaAtRest /\ ServerAtRest

(***************************************************************************)
(* The synchronous pieces of the crawl loop                                *)
(***************************************************************************)
\* The top of the while loop, run until an entry is to be fetched or the
\* loop ends (next = Null): the entries dropped on the way are the ones the
\* four `continue` checks reject.
\* DequeueCheck without the pagesMap.has test
DequeueCheckNoMapTest(e, pm) ==
    CASE e.depth > MAX_DEPTH -> "depth"
      [] ~isPrimaryDomain(e.normalized_url, primaryDomain) -> "scope"
      [] shouldSkipUrl(e.original_url) -> "skip"
      [] OTHER -> "crawl"

\* what the loop does with the entry e it has just shifted off the queue
\* (crawl.js 372-404)
DequeueCheck(e, pm) ==
    CASE e.depth > MAX_DEPTH -> "depth"
      [] ~isPrimaryDomain(e.normalized_url, primaryDomain) -> "scope"
      [] Has(pm, e.normalized_url) -> "duplicate"
      [] shouldSkipUrl(e.original_url) -> "skip"
      [] OTHER -> "crawl"

\* LoopCondition without the MAX_PAGES test
LoopConditionQueueOnly(q, crawled) == Len(q) > 0

\* the condition of the while loop (crawl.js 364)
LoopCondition(q, crawled) == Len(q) > 0 /\ crawled < MAX_PAGES

\* Advance that takes the entries from the tail of the queue
RECURSIVE AdvanceFromTail(_, _, _, _)
AdvanceFromTail(q, dups, crawled, pm) ==
    IF ~LoopCondition(q, crawled)
    THEN [queue |-> q, dups |-> dups, next |-> Null]
    ELSE LET e == Last(q)
             check == DequeueCheck(e, pm)
         IN  CASE check = "crawl" ->
                    [queue |-> Front(q), dups |-> dups, next |-> e]
               [] check = "duplicate" ->
                    AdvanceFromTail(Front(q), dups + 1, crawled, pm)
               [] OTHER -> AdvanceFromTail(Front(q), dups, crawled, pm)

RECURSIVE Advance(_, _, _, _)
Advance(q, dups, crawled, pm) ==
    IF ~LoopCondition(q, crawled)
    THEN [queue |-> q, dups |-> dups, next |-> Null]
    ELSE LET e == Head(q)
             check == DequeueCheck(e, pm)
         IN  CASE check = "crawl" ->
                    [queue |-> Tail(q), dups |-> dups, next |-> e]
               [] check = "duplicate" ->
                    Advance(Tail(q), dups + 1, crawled, pm)
               [] OTHER -> Advance(Tail(q), dups, crawled, pm)

\* ClassifyLink that does not record the page an external link is found on
ClassifyLinkNoReferrer(acc, link, normalizedUrl, baseUrl) ==
    LET c == normalizeAndClassifyUrl(link, baseUrl, primaryDomain)
        entry == Get(acc.registry, c.normalized,
                     [occurrences |-> 0, pages_found_on |-> {}])
    IN  CASE shouldSkipUrl(link) -> acc
          [] resolveUrl(link, baseUrl) = Null -> acc
          [] c.isExternal ->
               [acc EXCEPT
                  !.registry =
                     IF c.normalized = Null THEN @
                     ELSE Set(@, c.normalized,
                              [occurrences |-> entry.occurrences + 1,
                               pages_found_on |-> entry.pages_found_on]),
                  !.externalLinksOut = @ + 1]
          [] OTHER ->
               [acc EXCEPT
                  !.internalLinksOut = @ + 1,
                  !.incoming =
                     IF c.normalized # Null /\ c.normalized # normalizedUrl
                     THEN Set(@, c.normalized, Get(@, c.normalized, 0) + 1)
                     ELSE @,
                  !.edges = @ \cup {<<normalizedUrl, c.normalized>>}]

\* One link of the classification loop (crawl.js 462-506).
ClassifyLink(acc, link, normalizedUrl, baseUrl) ==
    LET c == normalizeAndClassifyUrl(link, baseUrl, primaryDomain)
        entry == Get(acc.registry, c.normalized,
                     [occurrences |-> 0, pages_found_on |-> {}])
    IN  CASE shouldSkipUrl(link) -> acc
          [] resolveUrl(link, baseUrl) = Null -> acc
          [] c.isExternal ->
               [acc EXCEPT
                  !.registry =
                     IF c.normalized = Null THEN @
                     ELSE Set(@, c.normalized,
                              [occurrences |-> entry.occurrences + 1,
                               pages_found_on |->
                                  entry.pages_found_on \cup {normalizedUrl}]),
                  !.externalLinksOut = @ + 1]
          [] OTHER ->
               [acc EXCEPT
                  !.internalLinksOut = @ + 1,
                  !.incoming =
                     IF c.normalized # Null /\ c.normalized # normalizedUrl
                     THEN Set(@, c.normalized, Get(@, c.normalized, 0) + 1)
                     ELSE @,
                  !.edges = @ \cup {<<normalizedUrl, c.normalized>>}]

RECURSIVE ClassifyLinks(_, _, _, _, _)
ClassifyLinks(acc, links, i, normalizedUrl, baseUrl) ==
    IF i > Len(links) THEN acc
    ELSE ClassifyLinks(ClassifyLink(acc, links[i], normalizedUrl, baseUrl),
                       links, i + 1, normalizedUrl, baseUrl)

\* EnqueueLink without the seenUrls / pagesMap test before the push
EnqueueLinkNoSeenTest(acc, link, depth, baseUrl, pm) ==
    LET resolvedLink == resolveUrl(link, baseUrl)
        c == normalizeAndClassifyUrl(link, baseUrl, primaryDomain)
    IN  CASE shouldSkipUrl(link) -> acc
          [] resolvedLink = Null -> acc
          [] c.isExternal \/ c.normalized = Null -> acc
          [] ~isPrimaryDomain(c.normalized, primaryDomain) -> acc
          [] depth >= MAX_DEPTH -> acc
          [] OTHER ->
               [acc EXCEPT
                  !.seenUrls = @ \cup {c.normalized},
                  !.queue = Append(@, [normalized_url |-> c.normalized,
                                       depth |-> depth + 1,
                                       original_url |-> resolvedLink]),
                  !.pushed = Append(@, [url |-> c.normalized,
                                        fresh |-> /\ c.normalized \notin acc.seenUrls
                                                  /\ ~Has(pm, c.normalized)]),
                  !.enqueuedCount = @ + 1]

\* EnqueueLink without the depth test before the push
EnqueueLinkNoDepthTest(acc, link, depth, baseUrl, pm) ==
    LET resolvedLink == resolveUrl(link, baseUrl)
        c == normalizeAndClassifyUrl(link, baseUrl, primaryDomain)
    IN  CASE shouldSkipUrl(link) -> acc
          [] resolvedLink = Null -> acc
          [] c.isExternal \/ c.normalized = Null -> acc
          [] ~isPrimaryDomain(c.normalized, primaryDomain) -> acc
          [] c.normalized \in acc.seenUrls \/ Has(pm, c.normalized) ->
               [acc EXCEPT !.duplicatesSkipped = @ + 1]
          [] OTHER ->
               [acc EXCEPT
                  !.seenUrls = @ \cup {c.normalized},
                  !.queue = Append(@, [normalized_url |-> c.normalized,
                                       depth |-> depth + 1,
                                       original_url |-> resolvedLink]),
                  !.pushed = Append(@, [url |-> c.normalized,
                                        fresh |-> /\ c.normalized \notin acc.seenUrls
                                                  /\ ~Has(pm, c.normalized)]),
                  !.enqueuedCount = @ + 1]

\* One link of the enqueue loop (crawl.js 563-620).
EnqueueLink(acc, link, depth, baseUrl, pm) ==
    LET resolvedLink == resolveUrl(link, baseUrl)
        c == normalizeAndClassifyUrl(link, baseUrl, primaryDomain)
    IN  CASE shouldSkipUrl(link) -> acc
          [] resolvedLink = Null -> acc
          [] c.isExternal \/ c.normalized = Null -> acc
          [] ~isPrimaryDomain(c.normalized, primaryDomain) -> acc
          [] c.normalized \in acc.seenUrls \/ Has(pm, c.normalized) ->
               [acc EXCEPT !.duplicatesSkipped = @ + 1]
          [] depth >= MAX_DEPTH -> acc
          [] OTHER ->
               [acc EXCEPT
                  !.seenUrls = @ \cup {c.normalized},
                  !.queue = Append(@, [normalized_url |-> c.normalized,
                                       depth |-> depth + 1,
                                       original_url |-> resolvedLink]),
                  !.pushed = Append(@, [url |-> c.normalized,
                                        fresh |-> /\ c.normalized \notin acc.seenUrls
                                                  /\ ~Has(pm, c.normalized)]),
                  !.enqueuedCount = @ + 1]

RECURSIVE EnqueueLinks(_, _, _, _, _, _)
EnqueueLinks(acc, links, i, depth, baseUrl, pm) ==
    IF i > Len(links) THEN acc
    ELSE EnqueueLinks(EnqueueLink(acc, links[i], depth, baseUrl, pm),
                      links, i + 1, depth, baseUrl, pm)

\* the final in-counts of the i-th page of pagesMap (crawl.js 659-661)
SetIncoming(pm, i) ==
    [pm EXCEPT ![i].internal_links_in =
                   Get(incomingLinksMap, pm[i].normalized_url, 0),
               ![i].external_links_in = 0]

\* Past the while loop with queue q, duplicate count dups and page map pm:
\* both watchdogs are cleared, up to the first store call (crawl.js 643-673).
AfterLoop(q, dups, pm) ==
    /\ queue' = q
    /\ totalDuplicatesSkipped' = dups
    /\ timeoutId' = IF timeoutId = "armed" THEN "cleared" ELSE timeoutId
    /\ stallCheckInterval' = "cleared"
    /\ cur' = NoEntry
    /\ IF Len(pm) > 0
       THEN /\ pc' = "reconcile"
            /\ idx' = 1
            /\ pagesMap' = SetIncoming(pm, 1)
       ELSE /\ pc' = "registry"
            /\ idx' = 0
            /\ pagesMap' = pm
    /\ UNCHANGED << pagesCrawled, lastActivityTime, inflight, fetched >>

\* Back to the top of the while loop with queue q, duplicate count dups and
\* page map pm, up to the next await: either the next fetch (after the
\* un-awaited progress write) or, past the loop, the first store call after
\* both watchdogs are cleared.
LoopFrom(q, dups, pm) ==
    LET a == Advance(q, dups, pagesCrawled, pm)
    IN  IF a.next # Null
        THEN /\ queue' = a.queue
             /\ totalDuplicatesSkipped' = a.dups
             /\ Cardinality(inflight) < MaxInflight
             /\ pagesCrawled' = pagesCrawled + 1
             /\ lastActivityTime' = now
             /\ inflight' = inflight \cup
                   { updateData("running",
                                Counters(pm, pagesCrawled + 1, a.dups)) }
             /\ cur' = [normalized_url |-> a.next.normalized_url,
                        depth |-> a.next.depth,
                        original_url |-> a.next.original_url,
                        fetchUrl |-> Null]
             /\ fetched' = fetched \cup {a.next.normalized_url}
             /\ pc' = "fetching"
             /\ pagesMap' = pm
             /\ UNCHANGED << idx, timeoutId, stallCheckInterval >>
        ELSE AfterLoop(a.queue, a.dups, pm)

\* the exception err escapes runCrawl: the catch of
\* runCrawlWithErrorHandling sends its status write
Escapes(message) ==
    /\ pc' = "wrapperWrite"
    /\ cur' = NoEntry
    /\ caught' = message

(***************************************************************************)
(* runCrawlWithErrorHandling / runCrawl                                    *)
(***************************************************************************)
processVars == << queue, seenUrls, pagesMap, incomingLinksMap,
                  externalLinksRegistry, pagesCrawled, totalDuplicatesSkipped,
                  iterationsWithoutNewPages, cur, idx, caught >>

timerVars == << timeoutId, stallCheckInterval, crawlStartTime,
               lastActivityTime, now >>

history == << edges, fetched, prevJob, prevPages, pushed, lastSuccessTime,
             starved, selectRefused >>

\* SeedIsValid without the test that the seed is in its own primary domain
SeedIsValidUnscoped ==
    /\ primaryDomain # Null
    /\ seedNormalizedForQueue # Null

SeedIsValid ==
    /\ primaryDomain # Null
    /\ seedNormalizedForQueue # Null
    /\ isPrimaryDomain(seedNormalizedForQueue, primaryDomain)

\* runCrawlWithErrorHandling(job) is called, in a fresh process when it is
\* not the first call: seed validation, the data structures, the two
\* watchdogs, up to the first await (crawl.js 211-315).
StartRun ==
    /\ run < MaxRuns
    /\ UNCHANGED notCrawl
    /\ pc \in {"idle", "returned"} \/ ~alive
    /\ inflight = {}
    /\ wd.pc # "await"
    /\ run' = run + 1
    /\ alive' = TRUE
    /\ wd' = NoWatchdog
    /\ seenUrls' = {}
    /\ pagesMap' = << >>
    /\ incomingLinksMap' = EmptyMap
    /\ externalLinksRegistry' = EmptyMap
    /\ pagesCrawled' = 0
    /\ totalDuplicatesSkipped' = 0
    /\ iterationsWithoutNewPages' = 0
    /\ cur' = NoEntry
    /\ idx' = 0
    /\ caught' = NULL
    /\ crawlStartTime' = now
    /\ lastActivityTime' = now
    /\ now' = now
    /\ edges' = {}
    /\ fetched' = {}
    /\ prevJob' = job
    /\ prevPages' = pages
    /\ lastSuccessTime' = now
    /\ starved' = FALSE
    /\ IF SeedIsValid
       THEN /\ queue' = << [normalized_url |-> seedNormalizedForQueue,
                            depth |-> 0, original_url |-> seedUrl] >>
            /\ pushed' = << [url |-> seedNormalizedForQueue, fresh |-> TRUE] >>
            /\ timeoutId' = "armed"
            /\ stallCheckInterval' = "armed"
            /\ pc' = "loading"
       ELSE /\ queue' = << >>
            /\ pushed' = << >>
            /\ timeoutId' = "none"
            /\ stallCheckInterval' = "none"
            /\ pc' = "seedFailWrite"
    /\ UNCHANGED << site, job, pages, inflight, faults, selectRefused >>

\* the status write of a rejected seed returns (crawl.js 223-227, 235-239)
SeedFailWriteReturns ==
    /\ alive /\ pc = "seedFailWrite"
    /\ UNCHANGED notCrawl
    /\ \E o \in StoreOutcomes :
         /\ Outcome(o)
         /\ job' = IF o = "ok"
                   THEN ApplyUpdate(job, updateData("failed",
                          [error_message |->
                              IF primaryDomain = Null
                              THEN "Invalid seed URL"
                              ELSE "Seed URL does not belong to primary domain",
                           stop_reason |-> "invalid_seed_url"]))
                   ELSE job
         /\ IF o = "throw"
            THEN Escapes("crawl_jobs update rejected")
            ELSE pc' = "returned" /\ UNCHANGED << cur, caught >>
    /\ UNCHANGED << site, pages, run, alive, queue, seenUrls, pagesMap,
                    incomingLinksMap, externalLinksRegistry, pagesCrawled,
                    totalDuplicatesSkipped, iterationsWithoutNewPages, idx,
                    timerVars, wd, inflight, history >>

\* existingPages.forEach (crawl.js 317-347)
RECURSIVE LoadExisting(_, _, _)
LoadExisting(rows, i, acc) ==
    IF i > Len(rows) THEN acc
    ELSE LoadExisting(rows, i + 1,
           IF /\ rows[i].normalized_url # Null
              /\ isPrimaryDomain(rows[i].normalized_url, primaryDomain)
           THEN [seenUrls |-> acc.seenUrls \cup {rows[i].normalized_url},
                 pagesMap |-> PutPage(acc.pagesMap,
                    [normalized_url |-> rows[i].normalized_url,
                     internal_links_out |-> rows[i].internal_links_out,
                     external_links_out |-> rows[i].external_links_out,
                     internal_links_in |-> rows[i].internal_links_in,
                     external_links_in |-> rows[i].external_links_in])]
           ELSE acc)

\* the select of the job's pages returns (crawl.js 312-352); the loop starts
LoadReturns ==
    /\ alive /\ pc = "loading"
    /\ UNCHANGED notCrawl
    /\ \E o \in StoreOutcomes :
         /\ Outcome(o)
         /\ selectRefused' = (selectRefused \/ o = "error")
         /\ IF o = "throw"
            THEN /\ Escapes("pages select rejected")
                 /\ UNCHANGED << queue, seenUrls, pagesMap, pagesCrawled,
                                 totalDuplicatesSkipped, idx, timerVars,
                                 inflight, fetched >>
            ELSE LET existingPages == IF o = "ok" THEN pages ELSE << >>
                     loaded == LoadExisting(existingPages, 1,
                                  [seenUrls |-> {}, pagesMap |-> << >>])
                 IN  /\ seenUrls' = loaded.seenUrls \cup {seedNormalizedForQueue}
                     /\ LoopFrom(queue, totalDuplicatesSkipped, loaded.pagesMap)
                     /\ UNCHANGED << crawlStartTime, now, caught >>
    /\ UNCHANGED << site, job, pages, run, alive, incomingLinksMap,
                    externalLinksRegistry, iterationsWithoutNewPages, wd,
                    edges, prevJob, prevPages, pushed, lastSuccessTime,
                    starved >>

\* what the fetcher may answer for url: the page itself or a redirect target
FinalUrls(url) == {url} \cup Redirects(site, normalizeUrl(url))

\* AfterFailedFetch with the entry put back at the end of the queue
AfterFailedFetchRetry(q, entry) ==
    Append(q, [normalized_url |-> entry.normalized_url,
               depth |-> entry.depth,
               original_url |-> entry.original_url])

\* the queue the loop goes on with when the fetch of entry gave no HTML or
\* threw: `continue` (crawl.js 436-439, 636-640)
AfterFailedFetch(q, entry) == q

\* fetchPage returns or throws (crawl.js 433-551, 636-640)
FetchReturns ==
    /\ alive /\ pc = "fetching"
    /\ UNCHANGED notCrawl
    /\ \E o \in {"html", "nonhtml", "throw"}, finalUrl \in FinalUrls(cur.original_url) :
         /\ Outcome(o)
         /\ IF o = "html"
            THEN LET links == SiteLinks(site, normalizeUrl(finalUrl))
                     acc == ClassifyLinks(
                               [internalLinksOut |-> 0, externalLinksOut |-> 0,
                                incoming |-> incomingLinksMap,
                                registry |-> externalLinksRegistry,
                                edges |-> edges],
                               links, 1, cur.normalized_url, finalUrl)
                 IN  /\ incomingLinksMap' = acc.incoming
                     /\ externalLinksRegistry' = acc.registry
                     /\ edges' = acc.edges
                     /\ pagesMap' = PutPage(pagesMap,
                          [normalized_url |-> cur.normalized_url,
                           internal_links_out |-> acc.internalLinksOut,
                           external_links_out |-> acc.externalLinksOut,
                           internal_links_in |->
                              Get(acc.incoming, cur.normalized_url, 0),
                           external_links_in |-> 0])
                     /\ cur' = [cur EXCEPT !.fetchUrl = finalUrl]
                     /\ pc' = "inserting"
                     /\ UNCHANGED << queue, pagesCrawled, totalDuplicatesSkipped,
                                     idx, timerVars, inflight, fetched >>
            ELSE /\ finalUrl = cur.original_url
                 /\ LoopFrom(AfterFailedFetch(queue, cur),
                             totalDuplicatesSkipped, pagesMap)
                 /\ UNCHANGED << incomingLinksMap, externalLinksRegistry, edges,
                                 crawlStartTime, now >>
    /\ UNCHANGED << site, job, pages, run, alive, seenUrls,
                    iterationsWithoutNewPages, caught, wd, prevJob,
                    prevPages, pushed, lastSuccessTime, starved,
                    selectRefused >>

\* FailSafeBreak without the test that the queue is empty
FailSafeBreakAnyQueue(enqueuedCount, iterations, q) ==
    /\ enqueuedCount = 0
    /\ iterations >= MAX_ITERATIONS_WITHOUT_NEW_PAGES

\* the fail-safe leaves the loop (crawl.js 623-628); iterations is the
\* counter after its increment
FailSafeBreak(enqueuedCount, iterations, q) ==
    /\ enqueuedCount = 0
    /\ iterations >= MAX_ITERATIONS_WITHOUT_NEW_PAGES
    /\ Len(q) = 0

\* the row insert of the page returns (crawl.js 535-640)
InsertReturns ==
    /\ alive /\ pc = "inserting"
    /\ UNCHANGED notCrawl
    /\ \E o \in StoreOutcomes :
         LET page == CHOOSE p \in { pagesMap[i] : i \in 1..Len(pagesMap) } :
                        p.normalized_url = cur.normalized_url
             row == [normalized_url |-> cur.normalized_url,
                     depth |-> cur.depth,
                     internal_links_out |-> page.internal_links_out,
                     external_links_out |-> page.external_links_out,
                     internal_links_in |-> page.internal_links_in,
                     external_links_in |-> page.external_links_in]
             acc == EnqueueLinks(
                       [queue |-> queue, seenUrls |-> seenUrls,
                        pushed |-> pushed,
                        enqueuedCount |-> 0, duplicatesSkipped |-> 0],
                       SiteLinks(site, normalizeUrl(cur.fetchUrl)), 1,
                       cur.depth, cur.fetchUrl, pagesMap)
         IN  /\ Outcome(o)
             /\ pages' = IF o = "ok" THEN Append(pages, row) ELSE pages
             /\ IF o = "throw"
                THEN /\ LoopFrom(queue, totalDuplicatesSkipped, pagesMap)
                     /\ UNCHANGED << seenUrls, iterationsWithoutNewPages,
                                     pushed, lastSuccessTime >>
                ELSE /\ seenUrls' = acc.seenUrls
                     /\ pushed' = acc.pushed
                     /\ lastSuccessTime' = now
                     /\ iterationsWithoutNewPages' =
                           IF acc.enqueuedCount = 0
                           THEN iterationsWithoutNewPages + 1 ELSE 0
                     /\ IF FailSafeBreak(acc.enqueuedCount,
                                         iterationsWithoutNewPages + 1,
                                         acc.queue)
                        THEN \* break
                             AfterLoop(acc.queue, totalDuplicatesSkipped,
                                       pagesMap)
                        ELSE LoopFrom(acc.queue,
                                      totalDuplicatesSkipped
                                         + acc.duplicatesSkipped,
                                      pagesMap)
    /\ UNCHANGED << site, job, run, alive, incomingLinksMap,
                    externalLinksRegistry, caught, crawlStartTime, now, wd,
                    edges, prevJob, prevPages, starved, selectRefused >>

\* stopReason with > for >=
stopReasonOffByOne ==
    IF pagesCrawled > MAX_PAGES THEN "MAX_PAGES limit reached"
    ELSE IF Len(queue) = 0 THEN "Queue exhausted"
    ELSE "No new pages added"

stopReason ==
    IF pagesCrawled >= MAX_PAGES THEN "MAX_PAGES limit reached"
    ELSE IF Len(queue) = 0 THEN "Queue exhausted"
    ELSE "No new pages added"

\* the update of one page's link counts returns (crawl.js 657-673); its
\* result is not looked at
ReconcileReturns ==
    /\ alive /\ pc = "reconcile"
    /\ UNCHANGED notCrawl
    /\ \E o \in StoreOutcomes :
         /\ Outcome(o)
         /\ pages' = IF o = "ok"
                     THEN [i \in 1..Len(pages) |->
                            IF pages[i].normalized_url = pagesMap[idx].normalized_url
                            THEN [pages[i] EXCEPT
                                    !.internal_links_out = pagesMap[idx].internal_links_out,
                                    !.external_links_out = pagesMap[idx].external_links_out,
                                    !.internal_links_in = pagesMap[idx].internal_links_in,
                                    !.external_links_in = pagesMap[idx].external_links_in]
                            ELSE pages[i]]
                     ELSE pages
         /\ CASE o = "throw" ->
                   Escapes("pages update rejected")
                   /\ UNCHANGED << idx, pagesMap >>
              [] o # "throw" /\ idx < Len(pagesMap) ->
                   /\ idx' = idx + 1
                   /\ pagesMap' = SetIncoming(pagesMap, idx + 1)
                   /\ UNCHANGED << pc, cur, caught >>
              [] OTHER ->
                   /\ pc' = "registry"
                   /\ UNCHANGED << idx, pagesMap, cur, caught >>
    /\ UNCHANGED << site, job, run, alive, queue, seenUrls, incomingLinksMap,
                    externalLinksRegistry, pagesCrawled,
                    totalDuplicatesSkipped, iterationsWithoutNewPages,
                    timerVars, wd, inflight, history >>

\* the update of crawl_jobs.external_links returns (crawl.js 678-692)
RegistryReturns ==
    /\ alive /\ pc = "registry"
    /\ UNCHANGED notCrawl
    /\ \E o \in StoreOutcomes :
         /\ Outcome(o)
         /\ job' = IF o = "ok"
                   THEN ApplyUpdate(job, [external_links |-> externalLinksRegistry])
                   ELSE job
         /\ IF o = "throw"
            THEN Escapes("crawl_jobs update rejected")
            ELSE pc' = "finalWrite" /\ UNCHANGED << cur, caught >>
    /\ UNCHANGED << site, pages, run, alive, queue, seenUrls, pagesMap,
                    incomingLinksMap, externalLinksRegistry, pagesCrawled,
                    totalDuplicatesSkipped, iterationsWithoutNewPages, idx,
                    timerVars, wd, inflight, history >>

\* updateJobStatus(job.id, 'completed', ...) returns (crawl.js 694-742)
FinalWriteReturns ==
    /\ alive /\ pc = "finalWrite"
    /\ UNCHANGED notCrawl
    /\ \E o \in StoreOutcomes :
         /\ Outcome(o)
         /\ job' = IF o = "ok"
                   THEN ApplyUpdate(job, updateData("completed",
                          Counters(pagesMap, pagesCrawled, totalDuplicatesSkipped)
                          @@ [stop_reason |-> stopReason]))
                   ELSE job
         /\ IF o = "throw"
            THEN Escapes("crawl_jobs update rejected")
            ELSE pc' = "returned" /\ UNCHANGED << cur, caught >>
    /\ UNCHANGED << site, pages, run, alive, queue, seenUrls, pagesMap,
                    incomingLinksMap, externalLinksRegistry, pagesCrawled,
                    totalDuplicatesSkipped, iterationsWithoutNewPages, idx,
                    timerVars, wd, inflight, history >>

\* WrapperPayload with the message left out
WrapperPayloadNoMessage(message) ==
    updateData("failed", [stop_reason |-> "error"])

\* the update the catch of runCrawlWithErrorHandling sends (crawl.js 758-761)
WrapperPayload(message) ==
    updateData("failed", [error_message |-> message, stop_reason |-> "error"])

\* the status write of the catch of runCrawlWithErrorHandling returns
\* (crawl.js 752-764); a rejection goes to the caller's .catch
WrapperWriteReturns ==
    /\ alive /\ pc = "wrapperWrite"
    /\ UNCHANGED notCrawl
    /\ \E o \in StoreOutcomes :
         /\ Outcome(o)
         /\ job' = IF o = "ok"
                   THEN ApplyUpdate(job, WrapperPayload(caught))
                   ELSE job
    /\ pc' = "returned"
    /\ UNCHANGED << site, pages, run, alive, queue, seenUrls, pagesMap,
                    incomingLinksMap, externalLinksRegistry, pagesCrawled,
                    totalDuplicatesSkipped, iterationsWithoutNewPages, cur,
                    idx, caught, timerVars, wd, inflight, history >>

(***************************************************************************)
(* The watchdogs and the progress writes                                   *)
(***************************************************************************)
WatchdogPayload(reason, message) ==
    updateData("failed",
               [error_message |-> message, stop_reason |-> reason]
               @@ Counters(pagesMap, pagesCrawled, totalDuplicatesSkipped))

\* the setTimeout callback starts (crawl.js 278-287)
TimeoutFires ==
    /\ alive /\ timeoutId = "armed"
    /\ UNCHANGED notCrawl
    /\ now - crawlStartTime >= MAX_RUNTIME_MS
    /\ timeoutId' = "fired"
    /\ stallCheckInterval' = "cleared"
    /\ wd' = [pc |-> "await", reason |-> "timeout",
              payload |-> WatchdogPayload("timeout",
                             "Crawl exceeded maximum runtime of 15 minutes")]
    /\ UNCHANGED << site, job, pages, run, alive, pc, processVars,
                    crawlStartTime, lastActivityTime, now, inflight, faults,
                    history >>

\* the setInterval callback finds the crawl stalled (crawl.js 293-305)
StallCheckFires ==
    /\ alive /\ stallCheckInterval = "armed"
    /\ UNCHANGED notCrawl
    /\ now - lastActivityTime > STALL_DETECTION_MS
    /\ stallCheckInterval' = "cleared"
    /\ timeoutId' = IF timeoutId = "armed" THEN "cleared" ELSE timeoutId
    /\ wd' = [pc |-> "await", reason |-> "stalled",
              payload |-> WatchdogPayload("stalled",
                             "Crawl stalled - no activity")]
    /\ UNCHANGED << site, job, pages, run, alive, pc, processVars,
                    crawlStartTime, lastActivityTime, now, inflight, faults,
                    history >>

\* the store applies (or refuses) the status write of the watchdog
WatchdogWriteLands ==
    /\ alive /\ wd.pc = "await"
    /\ UNCHANGED notCrawl
    /\ \E o \in {"ok", "error"} :
         /\ Outcome(o)
         /\ job' = IF o = "ok" THEN ApplyUpdate(job, wd.payload) ELSE job
    /\ wd' = [wd EXCEPT !.pc = "responded"]
    /\ UNCHANGED << site, pages, run, alive, pc, processVars, timerVars,
                    inflight, history >>

\* the callback resumes after its write: process.exit(1)
WatchdogExits ==
    /\ alive /\ wd.pc = "responded"
    /\ UNCHANGED notCrawl
    /\ alive' = FALSE
    /\ wd' = [wd EXCEPT !.pc = "exited"]
    /\ UNCHANGED << site, job, pages, run, pc, processVars, timerVars,
                    inflight, faults, history >>

\* the store applies (or refuses) an un-awaited progress write
\* (crawl.js 423-430)
ProgressWriteLands ==
    /\ UNCHANGED notCrawl
    /\ \E w \in inflight, o \in {"ok", "error"} :
         /\ Outcome(o)
         /\ job' = IF o = "ok" THEN ApplyUpdate(job, w) ELSE job
         /\ inflight' = inflight \ {w}
    /\ UNCHANGED << site, pages, run, alive, pc, processVars, timerVars, wd,
                    history >>

TimeoutDue ==
    alive /\ timeoutId = "armed" /\ now - crawlStartTime >= MAX_RUNTIME_MS

StallDue ==
    /\ alive /\ stallCheckInterval = "armed"
    /\ now - lastActivityTime > STALL_DETECTION_MS

\* Time passes while the process waits.  The process only ever waits, so a
\* timer that is due runs before the clock moves on.
Tick ==
    /\ alive
    /\ UNCHANGED notCrawl
    /\ timeoutId = "armed" \/ stallCheckInterval = "armed"
    /\ ~TimeoutDue /\ ~StallDue
    /\ now < MaxClock
    /\ now' = now + 1
    /\ starved' = (\/ starved
                   \/ /\ pc \in {"fetching", "inserting"}
                      /\ wd.pc = "idle"
                      /\ now - lastSuccessTime > STALL_DETECTION_MS)
    /\ UNCHANGED << site, job, pages, run, alive, pc, processVars, timeoutId,
                    stallCheckInterval, crawlStartTime, lastActivityTime, wd,
                    inflight, faults, edges, fetched, prevJob, prevPages,
                    pushed, lastSuccessTime, selectRefused >>

Next ==
    \/ StartRun
    \/ SeedFailWriteReturns
    \/ LoadReturns
    \/ FetchReturns
    \/ InsertReturns
    \/ ReconcileReturns
    \/ RegistryReturns
    \/ FinalWriteReturns
    \/ WrapperWriteReturns
    \/ TimeoutFires
    \/ StallCheckFires
    \/ WatchdogWriteLands
    \/ WatchdogExits
    \/ ProgressWriteLands
    \/ Tick

Spec == Init /\ [][Next]_vars

(***************************************************************************)
(* Batch content extraction (src/setup-git.sh holds the text of            *)
(* content-extraction.js; the route that starts it is in                   *)
(* src/unnamed/part_004).  BATCH_SIZE is the program's constant scaled to  *)
(* the size of the modelled page tables.  Every call of the store returns  *)
(* its data ("ok"), returns an error, or rejects ("throw");                *)
(* extractPageContent returns the content or throws.                       *)
(***************************************************************************)
BATCH_SIZE == 2

MaxExtractions == 2

MaxExtractFaults == 2

\* a row of pages as runCrawl inserts it: normalized_url is the queue
\* entry's, url the final URL of the fetch
PageRow(entryUrl, finalUrl) ==
    [normalized_url |-> normalizeUrl(entryUrl), url |-> finalUrl]

\* The pages tables of the modelled crawl jobs, each in ascending order of
\* normalized_url: a crawl that stored nothing; /, /a and /b, the home page
\* fetched at www.example.com; /a, /b and /c where the fetch of /a was
\* redirected to /b.
PageTables ==
    { << >>,
      << PageRow(Example(0, Home, <<>>, ""), Example(1, Home, <<>>, "")),
         PageRow(Example(0, <<"a">>, <<>>, ""), Example(0, <<"a">>, <<>>, "")),
         PageRow(Example(0, <<"b">>, <<>>, ""), Example(0, <<"b">>, <<>>, "")) >>,
      << PageRow(Example(0, <<"a">>, <<>>, ""), Example(0, <<"b">>, <<>>, "")),
         PageRow(Example(0, <<"b">>, <<>>, ""), Example(0, <<"b">>, <<>>, "")),
         PageRow(Example(0, <<"c">>, <<>>, ""), Example(0, <<"c">>, <<>>, "")) >> }

XOutcome(o) ==
    /\ o # "ok" => xfaults < MaxExtractFaults
    /\ xfaults' = IF o = "ok" THEN xfaults ELSE xfaults + 1

\* the row startContentExtraction inserts
NewExtractionJob(onlyMissing) ==
    [status |-> "running", started_at |-> "set", only_missing |-> onlyMissing,
     pages_total |-> NULL, pages_extracted |-> NULL, pages_failed |-> NULL,
     pages_skipped |-> NULL, pages_in_database |-> NULL,
     failed_urls |-> NULL, error_message |-> NULL, completed_at |-> NULL,
     failed_at |-> NULL, last_activity_at |-> NULL]

\* the update updateExtractionJobStatus sends
extractionUpdateData(status, metadata) ==
    (CASE status = "completed" -> [completed_at |-> "set"]
       [] status = "failed" -> [failed_at |-> "set"]
       [] status = "running" -> [last_activity_at |-> "set"]
       [] OTHER -> EmptyMap)
    @@ metadata @@ [status |-> status]

\* page.url || page.normalized_url
FetchUrl(page) == IF page.url # Null THEN page.url ELSE page.normalized_url

\* normalizeUrl(url) || page.normalized_url
StorageKey(page) ==
    IF normalizeUrl(FetchUrl(page)) # Null
    THEN normalizeUrl(FetchUrl(page))
    ELSE page.normalized_url

\* allPages.filter(page => !existingUrls.has(page.normalized_url))
RECURSIVE MissingPages(_, _)
MissingPages(pgs, existingUrls) ==
    IF pgs = << >> THEN << >>
    ELSE IF pgs[1].normalized_url \in existingUrls
         THEN MissingPages(Tail(pgs), existingUrls)
         ELSE << pgs[1] >> \o MissingPages(Tail(pgs), existingUrls)

IdleWorker == [pc |-> "idle", key |-> Null, insertError |-> NULL,
               result |-> NULL]

\* the indexes in pgs of pages.slice(from, from + BATCH_SIZE), from counted
\* from 0
Batch(pgs, from) ==
    { p \in 1..Len(pgs) : from < p /\ p <= from + BATCH_SIZE }

\* BatchIsSettled as Promise.race would have it
BatchHasSettledOne(w, batch) == \E p \in batch : w[p].pc = "settled"

\* Promise.all(batchPromises) is resolved: every async function of the
\* batch has returned
BatchIsSettled(w, batch) == \A p \in batch : w[p].pc = "settled"

\* batch.map(async (page) => ...) for the batch at from: each async
\* function runs up to its first await, the call of extractPageContent
StartBatch(pgs, from, w) ==
    /\ batchStart' = from
    /\ workers' = [p \in 1..Len(pgs) |->
                     IF p \in Batch(pgs, from)
                     THEN [w[p] EXCEPT !.pc = "extract"]
                     ELSE w[p]]
    /\ fetchLog' = fetchLog \o
                      [k \in 1..Cardinality(Batch(pgs, from)) |->
                          [page |-> pgs[from + k].normalized_url,
                           url |-> FetchUrl(pgs[from + k])]]
    /\ xpc' = "batch"

\* from `let pages = allPages` (or the filter) to the first await after it
BeginExtraction(pgs) ==
    /\ extractPages' = pgs
    /\ IF Len(pgs) = 0
       THEN /\ xpc' = "nothingMissingWrite"
            /\ UNCHANGED << batchStart, workers, fetchLog >>
       ELSE StartBatch(pgs, 0, [p \in 1..Len(pgs) |-> IdleWorker])

\* an exception reaches the catch of runContentExtraction
ExtractionEscapes(message) ==
    /\ xpc' = "failWrite"
    /\ extractError' = message

extractionLocals == << allPages, extractPages, batchStart, workers,
                       pagesExtracted, pagesFailed, failedUrls, dbCount,
                       extractError >>

extractionHistory == << fetchLog, prevContent, prevExtractionJob >>

\* POST /api/sitemaps/:sitemapId/extract-content: startContentExtraction,
\* then runContentExtractionWithErrorHandling up to the select of the pages
StartExtraction ==
    /\ xrun < MaxExtractions
    /\ xpc \in {"idle", "returned"}
    /\ \E onlyMissing \in BOOLEAN :
         extractionJob' = NewExtractionJob(onlyMissing)
    /\ xrun' = xrun + 1
    /\ xpc' = "loadPages"
    /\ allPages' = << >>
    /\ extractPages' = << >>
    /\ batchStart' = 0
    /\ workers' = << >>
    /\ pagesExtracted' = 0
    /\ pagesFailed' = 0
    /\ failedUrls' = << >>
    /\ dbCount' = << >>
    /\ extractError' = NULL
    /\ fetchLog' = << >>
    /\ prevContent' = page_content
    /\ prevExtractionJob' = extractionJob
    /\ UNCHANGED << crawledPages, page_content, xfaults >>
    /\ UNCHANGED notExtraction

\* the select of the pages of the crawl job returns
PagesReturn ==
    /\ xpc = "loadPages"
    /\ \E o \in StoreOutcomes :
         /\ XOutcome(o)
         /\ CASE o = "throw" ->
                   /\ ExtractionEscapes("pages select rejected")
                   /\ UNCHANGED << allPages, extractPages, batchStart,
                                   workers, fetchLog >>
              [] o = "error" ->
                   /\ ExtractionEscapes("Failed to fetch pages")
                   /\ UNCHANGED << allPages, extractPages, batchStart,
                                   workers, fetchLog >>
              [] OTHER ->
                   /\ allPages' = crawledPages
                   /\ UNCHANGED extractError
                   /\ IF Len(crawledPages) = 0
                      THEN /\ xpc' = "noPagesWrite"
                           /\ UNCHANGED << extractPages, batchStart, workers,
                                           fetchLog >>
                      ELSE IF extractionJob.only_missing
                           THEN /\ xpc' = "loadExisting"
                                /\ extractPages' = crawledPages
                                /\ UNCHANGED << batchStart, workers,
                                                fetchLog >>
                           ELSE BeginExtraction(crawledPages)
    /\ UNCHANGED << crawledPages, page_content, extractionJob, xrun,
                    pagesExtracted, pagesFailed, failedUrls, dbCount,
                    prevContent, prevExtractionJob >>
    /\ UNCHANGED notExtraction

\* the select of the normalized_url of the page_content rows returns; its
\* error is not looked at
ExistingReturn ==
    /\ xpc = "loadExisting"
    /\ \E o \in StoreOutcomes :
         /\ XOutcome(o)
         /\ IF o = "throw"
            THEN /\ ExtractionEscapes("page_content select rejected")
                 /\ UNCHANGED << extractPages, batchStart, workers,
                                 fetchLog >>
            ELSE /\ UNCHANGED extractError
                 /\ BeginExtraction(
                       MissingPages(allPages,
                                    IF o = "ok" THEN DOMAIN page_content
                                    ELSE {}))
    /\ UNCHANGED << crawledPages, page_content, extractionJob, xrun,
                    allPages, pagesExtracted, pagesFailed, failedUrls,
                    dbCount, prevContent, prevExtractionJob >>
    /\ UNCHANGED notExtraction

\* the update a write of the job row that ends the run leaves in the row
ExtractionJobWrite(o, data) ==
    /\ XOutcome(o)
    /\ extractionJob' = IF o = "ok" THEN ApplyUpdate(extractionJob, data)
                        ELSE extractionJob
    /\ IF o = "throw"
       THEN ExtractionEscapes("content_extraction_jobs update rejected")
       ELSE xpc' = "returned" /\ UNCHANGED extractError

\* the update of the job with no pages returns
NoPagesWriteReturns ==
    /\ xpc = "noPagesWrite"
    /\ \E o \in StoreOutcomes :
         ExtractionJobWrite(o,
            extractionUpdateData("completed",
               [pages_total |-> 0, pages_extracted |-> 0,
                pages_failed |-> 0]))
    /\ UNCHANGED << crawledPages, page_content, xrun, allPages, extractPages,
                    batchStart, workers, pagesExtracted, pagesFailed,
                    failedUrls, dbCount >>
    /\ UNCHANGED extractionHistory
    /\ UNCHANGED notExtraction

\* the update of the job with no page left after the filter returns
NothingMissingWriteReturns ==
    /\ xpc = "nothingMissingWrite"
    /\ \E o \in StoreOutcomes :
         ExtractionJobWrite(o,
            extractionUpdateData("completed",
               [pages_total |-> Len(allPages), pages_extracted |-> 0,
                pages_failed |-> 0, pages_skipped |-> Len(allPages)]))
    /\ UNCHANGED << crawledPages, page_content, xrun, allPages, extractPages,
                    batchStart, workers, pagesExtracted, pagesFailed,
                    failedUrls, dbCount >>
    /\ UNCHANGED extractionHistory
    /\ UNCHANGED notExtraction

\* PageFails without pagesFailed++
PageFailsUncounted(p, message) ==
    /\ pagesFailed' = pagesFailed
    /\ failedUrls' = Append(failedUrls,
                            [url |-> FetchUrl(extractPages[p]),
                             error |-> message])
    /\ workers' = [workers EXCEPT ![p].pc = "settled",
                                  ![p].result = "failed"]

\* the catch of the async function of page p
PageFails(p, message) ==
    /\ pagesFailed' = pagesFailed + 1
    /\ failedUrls' = Append(failedUrls,
                            [url |-> FetchUrl(extractPages[p]),
                             error |-> message])
    /\ workers' = [workers EXCEPT ![p].pc = "settled",
                                  ![p].result = "failed"]

\* CombinedError without the message of the upsert
CombinedErrorInsertOnly(insertError2, insertError) ==
    << "upsert failed, insert also failed", insertError2 >>

\* `Database error (upsert failed, insert also failed): ${insertError2.message}.
\* Original: ${insertError.message}`; error.message is kept as the sequence
\* of its parts
CombinedError(insertError2, insertError) ==
    << "upsert failed, insert also failed", insertError2, "Original",
       insertError >>

workerFrame == << crawledPages, extractionJob, xrun, xpc, allPages,
                  extractPages, batchStart, dbCount, extractError >>

\* extractPageContent returns for page p, or throws
ContentReturns ==
    /\ xpc = "batch"
    /\ \E p \in DOMAIN workers, o \in {"ok", "throw"} :
         /\ workers[p].pc = "extract"
         /\ XOutcome(o)
         /\ IF o = "throw"
            THEN PageFails(p, << "extractPageContent threw" >>)
            ELSE /\ workers' = [workers EXCEPT
                                   ![p].pc = "upsert",
                                   ![p].key = StorageKey(extractPages[p])]
                 /\ UNCHANGED << pagesFailed, failedUrls >>
    /\ UNCHANGED << page_content, pagesExtracted >>
    /\ UNCHANGED workerFrame
    /\ UNCHANGED extractionHistory
    /\ UNCHANGED notExtraction

\* the upsert of the content of page p returns
UpsertReturns ==
    /\ xpc = "batch"
    /\ \E p \in DOMAIN workers, o \in StoreOutcomes :
         /\ workers[p].pc = "upsert"
         /\ XOutcome(o)
         /\ page_content' =
               IF o = "ok"
               THEN Set(page_content, workers[p].key,
                        [page |-> extractPages[p].normalized_url])
               ELSE page_content
         /\ CASE o = "throw" -> PageFails(p, << "upsert rejected" >>)
              [] o = "error" ->
                   /\ workers' = [workers EXCEPT
                                     ![p].pc = "delete",
                                     ![p].insertError = "upsert error"]
                   /\ UNCHANGED << pagesFailed, failedUrls >>
              [] OTHER ->
                   /\ workers' = [workers EXCEPT ![p].pc = "verify"]
                   /\ UNCHANGED << pagesFailed, failedUrls >>
    /\ UNCHANGED pagesExtracted
    /\ UNCHANGED workerFrame
    /\ UNCHANGED extractionHistory
    /\ UNCHANGED notExtraction

\* the delete of the record under the key of page p returns
DeleteReturns ==
    /\ xpc = "batch"
    /\ \E p \in DOMAIN workers, o \in StoreOutcomes :
         /\ workers[p].pc = "delete"
         /\ XOutcome(o)
         /\ page_content' =
               IF o = "ok"
               THEN [k \in DOMAIN page_content \ {workers[p].key} |->
                        page_content[k]]
               ELSE page_content
         /\ IF o = "throw"
            THEN PageFails(p, << "delete rejected" >>)
            ELSE /\ workers' = [workers EXCEPT ![p].pc = "insert"]
                 /\ UNCHANGED << pagesFailed, failedUrls >>
    /\ UNCHANGED pagesExtracted
    /\ UNCHANGED workerFrame
    /\ UNCHANGED extractionHistory
    /\ UNCHANGED notExtraction

\* the insert that follows the delete returns; the store holds one record
\* per (crawl_job_id, normalized_url) and answers an insert under a key it
\* holds with an error
ContentInsertReturns ==
    /\ xpc = "batch"
    /\ \E p \in DOMAIN workers, o \in StoreOutcomes :
         /\ workers[p].pc = "insert"
         /\ IF workers[p].key \in DOMAIN page_content
            THEN o = "error" /\ UNCHANGED xfaults
            ELSE XOutcome(o)
         /\ page_content' =
               IF o = "ok"
               THEN Set(page_content, workers[p].key,
                        [page |-> extractPages[p].normalized_url])
               ELSE page_content
         /\ CASE o = "throw" -> PageFails(p, << "insert rejected" >>)
              [] o = "error" ->
                   PageFails(p, CombinedError("insert error",
                                              workers[p].insertError))
              [] OTHER ->
                   /\ workers' = [workers EXCEPT ![p].pc = "verify"]
                   /\ UNCHANGED << pagesFailed, failedUrls >>
    /\ UNCHANGED pagesExtracted
    /\ UNCHANGED workerFrame
    /\ UNCHANGED extractionHistory
    /\ UNCHANGED notExtraction

\* the select that verifies the saved record returns; what it returns is
\* only logged
VerifyReturns ==
    /\ xpc = "batch"
    /\ \E p \in DOMAIN workers, o \in StoreOutcomes :
         /\ workers[p].pc = "verify"
         /\ XOutcome(o)
         /\ IF o = "throw"
            THEN PageFails(p, << "verify rejected" >>) /\ UNCHANGED pagesExtracted
            ELSE /\ pagesExtracted' = pagesExtracted + 1
                 /\ workers' = [workers EXCEPT ![p].pc = "settled",
                                               ![p].result = "extracted"]
                 /\ UNCHANGED << pagesFailed, failedUrls >>
    /\ UNCHANGED page_content
    /\ UNCHANGED workerFrame
    /\ UNCHANGED extractionHistory
    /\ UNCHANGED notExtraction

\* await Promise.all(batchPromises) returns: the progress update is sent
BatchSettles ==
    /\ xpc = "batch"
    /\ BatchIsSettled(workers, Batch(extractPages, batchStart))
    /\ xpc' = "progress"
    /\ UNCHANGED << crawledPages, page_content, extractionJob, xrun,
                    xfaults >>
    /\ UNCHANGED extractionLocals
    /\ UNCHANGED extractionHistory
    /\ UNCHANGED notExtraction

\* the progress update returns: the delay before the next batch, or the
\* count of the saved records
ProgressReturns ==
    /\ xpc = "progress"
    /\ \E o \in StoreOutcomes :
         /\ XOutcome(o)
         /\ extractionJob' =
               IF o = "ok"
               THEN ApplyUpdate(extractionJob,
                       extractionUpdateData("running",
                          [pages_total |-> Len(extractPages),
                           pages_extracted |-> pagesExtracted,
                           pages_failed |-> pagesFailed,
                           last_activity_at |-> "set"]))
               ELSE extractionJob
         /\ IF o = "throw"
            THEN ExtractionEscapes("content_extraction_jobs update rejected")
            ELSE /\ xpc' = IF batchStart + BATCH_SIZE < Len(extractPages)
                           THEN "delay" ELSE "count"
                 /\ UNCHANGED extractError
    /\ UNCHANGED << crawledPages, page_content, xrun, allPages, extractPages,
                    batchStart, workers, pagesExtracted, pagesFailed,
                    failedUrls, dbCount >>
    /\ UNCHANGED extractionHistory
    /\ UNCHANGED notExtraction

\* the timer of DELAY_BETWEEN_BATCHES fires: the next batch
DelayElapses ==
    /\ xpc = "delay"
    /\ StartBatch(extractPages, batchStart + BATCH_SIZE, workers)
    /\ UNCHANGED << crawledPages, page_content, extractionJob, xrun,
                    allPages, extractPages, pagesExtracted, pagesFailed,
                    failedUrls, dbCount, extractError, xfaults,
                    prevContent, prevExtractionJob >>
    /\ UNCHANGED notExtraction

\* the count of the page_content rows returns: the completed update is sent
CountReturns ==
    /\ xpc = "count"
    /\ \E o \in StoreOutcomes :
         /\ XOutcome(o)
         /\ dbCount' = IF o = "ok"
                       THEN << Cardinality(DOMAIN page_content) >>
                       ELSE << >>
         /\ IF o = "throw"
            THEN ExtractionEscapes("page_content count rejected")
            ELSE xpc' = "finalWrite" /\ UNCHANGED extractError
    /\ UNCHANGED << crawledPages, page_content, extractionJob, xrun,
                    allPages, extractPages, batchStart, workers,
                    pagesExtracted, pagesFailed, failedUrls >>
    /\ UNCHANGED extractionHistory
    /\ UNCHANGED notExtraction

\* CompletedTotals with the unfiltered page count as pages_total
CompletedTotalsAllPages ==
    [pages_total |-> Len(allPages),
     pages_extracted |-> pagesExtracted,
     pages_failed |-> pagesFailed,
     pages_in_database |-> IF dbCount = << >> \/ dbCount[1] = 0 THEN NULL
                           ELSE dbCount[1],
     failed_urls |-> IF Len(failedUrls) > 0 THEN failedUrls ELSE NULL]

\* the metadata of the completed update
CompletedTotals ==
    [pages_total |-> Len(extractPages),
     pages_extracted |-> pagesExtracted,
     pages_failed |-> pagesFailed,
     pages_in_database |-> IF dbCount = << >> \/ dbCount[1] = 0 THEN NULL
                           ELSE dbCount[1],
     failed_urls |-> IF Len(failedUrls) > 0 THEN failedUrls ELSE NULL]

\* the completed update returns
CompletedWriteReturns ==
    /\ xpc = "finalWrite"
    /\ \E o \in StoreOutcomes :
         ExtractionJobWrite(o,
            extractionUpdateData("completed", CompletedTotals))
    /\ UNCHANGED << crawledPages, page_content, xrun, allPages, extractPages,
                    batchStart, workers, pagesExtracted, pagesFailed,
                    failedUrls, dbCount >>
    /\ UNCHANGED extractionHistory
    /\ UNCHANGED notExtraction

\* the failed update of the catch returns; the error is thrown again and
\* runContentExtractionWithErrorHandling logs it
FailWriteReturns ==
    /\ xpc = "failWrite"
    /\ \E o \in StoreOutcomes :
         /\ XOutcome(o)
         /\ extractionJob' =
               IF o = "ok"
               THEN ApplyUpdate(extractionJob,
                       extractionUpdateData("failed",
                          [error_message |-> extractError]))
               ELSE extractionJob
    /\ xpc' = "returned"
    /\ UNCHANGED << crawledPages, page_content, xrun >>
    /\ UNCHANGED extractionLocals
    /\ UNCHANGED extractionHistory
    /\ UNCHANGED notExtraction

InitExtract ==
    /\ CrawlInit
    /\ site = "about"
    /\ job.domain = [kind |-> "host", www |-> 0, host |-> "example.com"]
    /\ crawledPages \in PageTables
    /\ NoExtraction
    /\ UrlsAtRest /\ PagesReadAtRest /\ SchemaAtRest /\ ServerAtRest

NextExtract ==
    \/ StartExtraction
    \/ PagesReturn
    \/ ExistingReturn
    \/ NoPagesWriteReturns
    \/ NothingMissingWriteReturns
    \/ ContentReturns
    \/ UpsertReturns
    \/ DeleteReturns
    \/ ContentInsertReturns
    \/ VerifyReturns
    \/ BatchSettles
    \/ ProgressReturns
    \/ DelayElapses
    \/ CountReturns
    \/ CompletedWriteReturns
    \/ FailWriteReturns

SpecExtract == InitExtract /\ [][NextExtract]_<< vars, xvars >>

(***************************************************************************)
(* The canonicalizer and the scope predicate applied to given URLs: two    *)
(* absolute URLs that differ in one component are normalized, the result   *)
(* of the first is normalized again, and the first is classified against   *)
(* a primary domain the way the crawl does it at its three call sites.     *)
(***************************************************************************)
\* hostnames carry up to MaxWww "www." prefixes
MaxWww == 2

Param(key, value) == << [key |-> key, value |-> value] >>

UrlSearches ==
    { << >>, Utm, Param("fbclid", "x"), Param("page", "1"),
      Param("page", "2"), Param("id", "1") }

\* the paths /, /a, /a/ and //a
UrlPaths == { Home, <<"a">>, <<"a", "">>, <<"", "a">> }

Urls ==
    { Abs(protocol, www, host, port, path, search, hash) :
         protocol \in {"http:", "https:"}, www \in 0..MaxWww,
         host \in {"example.com", "blog.example.com"},
         port \in {"", "80", "443"}, path \in UrlPaths,
         search \in UrlSearches, hash \in {"", "team"} }

UrlComponents == {"protocol", "www", "host", "port", "path", "search", "hash"}

\* the components in which u and v differ
Differences(u, v) == { c \in UrlComponents : u[c] # v[c] }

\* extractPrimaryDomain(seedUrl) of the seeds among Urls
PrimaryDomains == { extractPrimaryDomain(u) : u \in Urls }

InitUrls ==
    /\ CrawlInit
    /\ site = "about"
    /\ job.domain = [kind |-> "host", www |-> 0, host |-> "example.com"]
    /\ ExtractionAtRest /\ PagesReadAtRest /\ SchemaAtRest /\ ServerAtRest
    /\ urlA \in Urls
    /\ urlB \in { v \in Urls : Cardinality(Differences(urlA, v)) = 1 }
    /\ ustep = "given"
    /\ normA = Unset /\ normB = Unset /\ renormA = Unset
    /\ scope = Unset

\* normalizeUrl(urlA), normalizeUrl(urlB)
Canonicalize ==
    /\ ustep = "given"
    /\ normA' = normalizeUrl(urlA)
    /\ normB' = normalizeUrl(urlB)
    /\ ustep' = "normalized"
    /\ UNCHANGED << urlA, urlB, renormA, scope >>
    /\ UNCHANGED notUrls

\* normalizeUrl of what normalizeUrl returned
Recanonicalize ==
    /\ ustep = "normalized"
    /\ renormA' = IF normA = Null THEN Null ELSE normalizeUrl(normA)
    /\ ustep' = "renormalized"
    /\ UNCHANGED << urlA, urlB, normA, normB, scope >>
    /\ UNCHANGED notUrls

\* The scope decisions of runCrawl on urlA for a primary domain: as the
\* seed (normalizeUrl, then isPrimaryDomain), as a link found on the seed
\* page (normalizeAndClassifyUrl, then isPrimaryDomain before the push) and
\* as the queue entry (isPrimaryDomain when it is taken from the queue).
ScopeDecisions(url, pd) ==
    LET seedNormalized == normalizeUrl(url)
        link == normalizeAndClassifyUrl(url, SeedUrl(job.domain),
                                        pd)
    IN  [primaryDomain |-> pd,
         seed |-> /\ seedNormalized # Null
                  /\ isPrimaryDomain(seedNormalized, pd),
         normalized |-> link.normalized,
         isExternal |-> link.isExternal,
         enqueue |-> /\ link.normalized # Null
                     /\ isPrimaryDomain(link.normalized, pd),
         dequeue |-> /\ link.normalized # Null
                     /\ isPrimaryDomain(link.normalized, pd)]

Classify ==
    /\ ustep = "renormalized"
    /\ \E pd \in PrimaryDomains :
         scope' = ScopeDecisions(urlA, pd)
    /\ ustep' = "classified"
    /\ UNCHANGED << urlA, urlB, normA, normB, renormA >>
    /\ UNCHANGED notUrls

NextUrls ==
    \/ Canonicalize
    \/ Recanonicalize
    \/ Classify

SpecUrls == InitUrls /\ [][NextUrls]_<< uvars, notUrls >>

(***************************************************************************)
(* GET /crawl/:jobId/pages: the server reads the row of the job and the    *)
(* rows of its pages, keeps the pages of the primary domain, removes       *)
(* duplicates and answers.                                                 *)
(***************************************************************************)
\* the domain of a job as POST /crawl stored it: the text the caller gave,
\* a bare host or a URL
StoredDomains ==
    { [kind |-> "host", www |-> 0, host |-> "example.com"],
      Example(0, Home, << >>, ""),
      Example(1, Home, << >>, "") }

StoredRow(normalized_url, url) ==
    [normalized_url |-> normalized_url, url |-> url]

\* rows the pages of a job can hold, in ascending order of normalized_url
PagePool ==
    << StoredRow(BlogSub, BlogSub),
       StoredRow(Example(0, Home, << >>, ""), Example(1, Home, << >>, "")),
       StoredRow(Example(0, <<"A">>, << >>, ""), Example(0, <<"A">>, << >>, "")),
       StoredRow(Example(0, <<"a">>, << >>, ""), Example(0, <<"a">>, << >>, "")),
       StoredRow(Example(0, <<"a">>, << >>, ""), Example(0, <<"a">>, Utm, "")),
       StoredRow(ExternalOrg, ExternalOrg),
       StoredRow(Null, Example(0, <<"b">>, << >>, "")) >>

\* the rows of PagePool at the positions in keep, in the order of PagePool
RECURSIVE Ordered(_, _)
Ordered(keep, from) ==
    IF from > Len(PagePool) THEN << >>
    ELSE (IF from \in keep THEN << PagePool[from] >> ELSE << >>)
            \o Ordered(keep, from + 1)

InitPages ==
    /\ CrawlInit
    /\ site = "about"
    /\ job.domain = [kind |-> "host", www |-> 0, host |-> "example.com"]
    /\ ExtractionAtRest /\ UrlsAtRest /\ SchemaAtRest /\ ServerAtRest
    /\ storedJob \in { [domain |-> d] : d \in StoredDomains }
    /\ storedPages \in { Ordered(keep, 1) : keep \in SUBSET (DOMAIN PagePool) }
    /\ gstep = "job"
    /\ response = Unset

ErrorResponse(status, error) ==
    [status |-> status, error |-> error, pages |-> << >>]

\* .toLowerCase() of a path segment
LowerCase(segment) == IF segment = "A" THEN "a" ELSE segment

\* normalizedUrl.toLowerCase().trim()
normalizedKey(normalizedUrl) ==
    [normalizedUrl EXCEPT
       !.path = [i \in DOMAIN normalizedUrl.path |->
                    LowerCase(normalizedUrl.path[i])]]

\* pages.filter(...): a row without normalized_url or outside the primary
\* domain is left out
primaryDomainPages(rows, pd) ==
    SelectSeq(rows, LAMBDA page :
        /\ page.normalized_url # Null
        /\ isPrimaryDomain(page.normalized_url, pd))

\* Array.from(pagesMap.values()) after the loop over rows: the first row of each key
RECURSIVE deduplicated(_, _)
deduplicated(rows, seen) ==
    IF rows = << >> THEN << >>
    ELSE LET key == normalizedKey(Head(rows).normalized_url)
         IN  IF key \in seen
             THEN deduplicated(Tail(rows), seen)
             ELSE << Head(rows) >> \o deduplicated(Tail(rows), seen \cup {key})

formattedPages(rows) ==
    [i \in DOMAIN rows |->
        [normalized_url |-> rows[i].normalized_url,
         original_url |-> rows[i].url]]

\* the select of the row of the job returns
JobSelectReturns ==
    /\ gstep = "job"
    /\ \E outcome \in StoreOutcomes :
         CASE outcome = "throw" ->
                /\ response' = ErrorResponse(500, "Failed to get pages")
                /\ gstep' = "answered"
           [] outcome = "error" ->
                /\ response' = ErrorResponse(404, "Job not found")
                /\ gstep' = "answered"
           [] OTHER ->
                IF extractPrimaryDomain(storedJob.domain) = Null
                THEN /\ response' = ErrorResponse(500, "Invalid job domain")
                     /\ gstep' = "answered"
                ELSE /\ gstep' = "pages"
                     /\ UNCHANGED response
    /\ UNCHANGED << storedJob, storedPages >>
    /\ UNCHANGED notPagesRead

\* the select of the rows of the pages returns
PagesSelectReturns ==
    /\ gstep = "pages"
    /\ \E outcome \in StoreOutcomes :
         response' =
            CASE outcome = "throw" -> ErrorResponse(500, "Failed to get pages")
              [] outcome = "error" -> ErrorResponse(500, "Failed to fetch pages")
              [] OTHER ->
                   [status |-> 200, error |-> NULL,
                    pages |-> formattedPages(
                        deduplicated(primaryDomainPages(storedPages,
                            extractPrimaryDomain(storedJob.domain)), {}))]
    /\ gstep' = "answered"
    /\ UNCHANGED << storedJob, storedPages >>
    /\ UNCHANGED notPagesRead

NextPages ==
    \/ JobSelectReturns
    \/ PagesSelectReturns

SpecPages == InitPages /\ [][NextPages]_<< gvars, notPagesRead >>

(***************************************************************************)
(* A crawl job and an extraction job side by side.  The crawl writes the   *)
(* row of crawl_jobs and the extraction the row of                         *)
(* content_extraction_jobs and neither reads the other's variables, so a   *)
(* behaviour runs the one or the other.                                    *)
(***************************************************************************)
InitJobs ==
    /\ CrawlInit
    /\ site = "about"
    /\ crawledPages \in PageTables
    /\ crawledPages # << >>
         => job.domain = [kind |-> "host", www |-> 0, host |-> "example.com"]
    /\ NoExtraction
    /\ UrlsAtRest /\ PagesReadAtRest /\ SchemaAtRest /\ ServerAtRest

\* no extraction has started
OnlyCrawl == xrun = 0

\* no crawl has started
OnlyExtraction == run = 0

NextJobs ==
    \/ OnlyCrawl /\ StartRun
    \/ OnlyCrawl /\ SeedFailWriteReturns
    \/ OnlyCrawl /\ LoadReturns
    \/ OnlyCrawl /\ FetchReturns
    \/ OnlyCrawl /\ InsertReturns
    \/ OnlyCrawl /\ ReconcileReturns
    \/ OnlyCrawl /\ RegistryReturns
    \/ OnlyCrawl /\ FinalWriteReturns
    \/ OnlyCrawl /\ WrapperWriteReturns
    \/ OnlyCrawl /\ TimeoutFires
    \/ OnlyCrawl /\ StallCheckFires
    \/ OnlyCrawl /\ WatchdogWriteLands
    \/ OnlyCrawl /\ WatchdogExits
    \/ OnlyCrawl /\ ProgressWriteLands
    \/ OnlyCrawl /\ Tick
    \/ OnlyExtraction /\ StartExtraction
    \/ OnlyExtraction /\ PagesReturn
    \/ OnlyExtraction /\ ExistingReturn
    \/ OnlyExtraction /\ NoPagesWriteReturns
    \/ OnlyExtraction /\ NothingMissingWriteReturns
    \/ OnlyExtraction /\ ContentReturns
    \/ OnlyExtraction /\ UpsertReturns
    \/ OnlyExtraction /\ DeleteReturns
    \/ OnlyExtraction /\ ContentInsertReturns
    \/ OnlyExtraction /\ VerifyReturns
    \/ OnlyExtraction /\ BatchSettles
    \/ OnlyExtraction /\ ProgressReturns
    \/ OnlyExtraction /\ DelayElapses
    \/ OnlyExtraction /\ CountReturns
    \/ OnlyExtraction /\ CompletedWriteReturns
    \/ OnlyExtraction /\ FailWriteReturns

SpecJobs == InitJobs /\ [][NextJobs]_<< vars, xvars >>

(***************************************************************************)
(* extractSchema inside extractPageContent, for the pages of one batch.    *)
(* A page is the sequence of its <script type="application/ld+json">       *)
(* elements in document order.                                             *)
(***************************************************************************)
\* a page holds up to MaxScripts JSON-LD scripts
MaxScripts == 2

\* the content of a script element: nothing, white space, text that is not
\* JSON, one JSON object, or a JSON array of objects
ScriptContents ==
    { [kind |-> "empty", items |-> << >>],
      [kind |-> "blank", items |-> << >>],
      [kind |-> "malformed", items |-> << >>],
      [kind |-> "object", items |-> << "Organization" >>],
      [kind |-> "array", items |-> << "Article", "Person" >>],
      [kind |-> "array", items |-> << >>] }

PageScripts ==
    UNION { [1..n -> ScriptContents] : n \in 0..MaxScripts }

InitSchema ==
    /\ CrawlInit
    /\ site = "about"
    /\ job.domain = [kind |-> "host", www |-> 0, host |-> "example.com"]
    /\ ExtractionAtRest /\ UrlsAtRest /\ PagesReadAtRest /\ ServerAtRest
    /\ scripts \in [1..BATCH_SIZE -> PageScripts]
    /\ sstep = "batch"
    /\ content = [i \in 1..BATCH_SIZE |-> Unset]

\* JSON.parse(scriptContent.trim()): the value, or Null when it throws
JSONParse(scriptContent) ==
    CASE scriptContent.kind = "object" ->
           [isArray |-> FALSE, value |-> scriptContent.items[1]]
      [] scriptContent.kind = "array" ->
           [isArray |-> TRUE, value |-> scriptContent.items]
      [] OTHER -> Null

\* what one pass of the .each callback pushes to jsonLdScripts
Pushed(scriptContent) ==
    IF scriptContent.kind = "empty" THEN << >>
    ELSE LET parsed == JSONParse(scriptContent)
         IN  IF parsed = Null THEN << >>
             ELSE IF parsed.isArray THEN parsed.value
             ELSE << parsed.value >>

\* jsonLdScripts after the .each over the scripts from position i on
RECURSIVE jsonLdScripts(_, _)
jsonLdScripts(elems, i) ==
    IF i > Len(elems) THEN << >>
    ELSE Pushed(elems[i]) \o jsonLdScripts(elems, i + 1)

\* extractSchema in which a script that fails to parse ends the extraction
\* of the schema with an exception
extractSchemaAllOrNothing(elems) ==
    IF \E i \in DOMAIN elems :
          elems[i].kind # "empty" /\ JSONParse(elems[i]) = Null
    THEN Null
    ELSE [json_ld |-> jsonLdScripts(elems, 1)]

\* extractSchema(html): each JSON.parse has its own try, so it returns
extractSchema(elems) == [json_ld |-> jsonLdScripts(elems, 1)]

\* extractPageContent of one page of the batch returns
ExtractPageContent ==
    /\ sstep = "batch"
    /\ \E i \in DOMAIN content :
         /\ content[i] = Unset
         /\ LET schema == IF extractSchema(scripts[i]) = Null
                          THEN [json_ld |-> << >>]
                          ELSE extractSchema(scripts[i])
            IN  content' = [content EXCEPT ![i] =
                              [kind |-> "content",
                               content_schema_version |-> "1.0",
                               schema |-> schema]]
    /\ UNCHANGED << scripts, sstep >>
    /\ UNCHANGED notSchema

\* every extractPageContent of the batch has returned
SchemaBatchSettles ==
    /\ sstep = "batch"
    /\ \A i \in DOMAIN content : content[i] # Unset
    /\ sstep' = "settled"
    /\ UNCHANGED << scripts, content >>
    /\ UNCHANGED notSchema

NextSchema ==
    \/ ExtractPageContent
    \/ SchemaBatchSettles

SpecSchema == InitSchema /\ [][NextSchema]_<< svars, notSchema >>

(***************************************************************************)
(* Several crawls in one server process                                    *)
(***************************************************************************)
MaxServerClock == 3

InitServer ==
    /\ CrawlInit
    /\ site = "about"
    /\ job.domain = [kind |-> "host", www |-> 0, host |-> "example.com"]
    /\ ExtractionAtRest /\ UrlsAtRest /\ PagesReadAtRest /\ SchemaAtRest
    /\ ServerAtRest

\* POST /crawl for job j: startCrawl inserts the row with status 'running',
\* runCrawlWithErrorHandling is called without await and runCrawl runs up to
\* its first await, arming the two timers of the job
PostCrawl(j) ==
    /\ serverAlive /\ crawls[j].pc = "none"
    /\ crawls' = [crawls EXCEPT ![j] =
                    [pc |-> "loop", status |-> "running", stop_reason |-> NULL,
                     timeoutId |-> "armed", stallCheckInterval |-> "armed",
                     crawlStartTime |-> ptime, lastActivityTime |-> ptime,
                     pagesCrawled |-> 0, wd |-> "idle"]]
    /\ UNCHANGED << serverAlive, ptime, exitedBy >>

\* one pass of the while loop of job j: pagesCrawled++ and
\* lastActivityTime = Date.now()
CrawlIterates(j) ==
    /\ serverAlive /\ crawls[j].pc = "loop"
    /\ crawls[j].pagesCrawled < MAX_PAGES
    /\ crawls' = [crawls EXCEPT ![j].pagesCrawled = @ + 1,
                                ![j].lastActivityTime = ptime]
    /\ UNCHANGED << serverAlive, ptime, exitedBy >>

\* the while loop of job j is left: clearTimeout, clearInterval, and the
\* 'completed' write is sent
CrawlLoopExits(j) ==
    /\ serverAlive /\ crawls[j].pc = "loop"
    /\ crawls' = [crawls EXCEPT
                    ![j].pc = "final",
                    ![j].timeoutId = IF @ = "armed" THEN "cleared" ELSE @,
                    ![j].stallCheckInterval = "cleared"]
    /\ UNCHANGED << serverAlive, ptime, exitedBy >>

\* the store applies (or refuses) the 'completed' write of job j and
\* runCrawl returns
CompletedWriteLands(j) ==
    /\ serverAlive /\ crawls[j].pc = "final"
    /\ \E o \in {"ok", "error"} :
         crawls' = [crawls EXCEPT
                      ![j].pc = "returned",
                      ![j].status = IF o = "ok" THEN "completed" ELSE @,
                      ![j].stop_reason =
                          IF o = "ok" THEN "Queue exhausted" ELSE @]
    /\ UNCHANGED << serverAlive, ptime, exitedBy >>

ServerTimeoutDue(j) ==
    /\ crawls[j].timeoutId = "armed"
    /\ ptime - crawls[j].crawlStartTime >= MAX_RUNTIME_MS

ServerStallDue(j) ==
    /\ crawls[j].stallCheckInterval = "armed"
    /\ ptime - crawls[j].lastActivityTime > STALL_DETECTION_MS

\* the setTimeout callback of job j starts and sends its 'failed' write
JobTimeoutFires(j) ==
    /\ serverAlive /\ ServerTimeoutDue(j)
    /\ crawls' = [crawls EXCEPT ![j].timeoutId = "fired",
                                ![j].stallCheckInterval = "cleared",
                                ![j].wd = "timeout"]
    /\ UNCHANGED << serverAlive, ptime, exitedBy >>

\* the setInterval callback of job j finds it stalled and sends its 'failed'
\* write
JobStallCheckFires(j) ==
    /\ serverAlive /\ ServerStallDue(j)
    /\ crawls' = [crawls EXCEPT
                    ![j].stallCheckInterval = "cleared",
                    ![j].timeoutId = IF @ = "armed" THEN "cleared" ELSE @,
                    ![j].wd = "stalled"]
    /\ UNCHANGED << serverAlive, ptime, exitedBy >>

\* the store applies (or refuses) the 'failed' write of the watchdog of job j
JobWatchdogWriteLands(j) ==
    /\ serverAlive /\ crawls[j].wd \in {"timeout", "stalled"}
    /\ \E o \in {"ok", "error"} :
         crawls' = [crawls EXCEPT
                      ![j].wd = "responded",
                      ![j].status = IF o = "ok" THEN "failed" ELSE @,
                      ![j].stop_reason =
                          IF o = "ok" THEN crawls[j].wd ELSE @]
    /\ UNCHANGED << serverAlive, ptime, exitedBy >>

\* the watchdog callback of job j resumes after its write: process.exit(1)
\* ends the server process and every runCrawl call in it
JobWatchdogExits(j) ==
    /\ serverAlive /\ crawls[j].wd = "responded"
    /\ serverAlive' = FALSE
    /\ exitedBy' = j
    /\ UNCHANGED << crawls, ptime >>

\* time passes in the server process; a timer that is due runs first
ServerTick ==
    /\ serverAlive
    /\ \A j \in JobIds : ~ServerTimeoutDue(j) /\ ~ServerStallDue(j)
    /\ ptime < MaxServerClock
    /\ ptime' = ptime + 1
    /\ UNCHANGED << serverAlive, crawls, exitedBy >>

NextServer ==
    \/ \E j \in JobIds : PostCrawl(j) /\ UNCHANGED notServer
    \/ \E j \in JobIds : CrawlIterates(j) /\ UNCHANGED notServer
    \/ \E j \in JobIds : CrawlLoopExits(j) /\ UNCHANGED notServer
    \/ \E j \in JobIds : CompletedWriteLands(j) /\ UNCHANGED notServer
    \/ \E j \in JobIds : JobTimeoutFires(j) /\ UNCHANGED notServer
    \/ \E j \in JobIds : JobStallCheckFires(j) /\ UNCHANGED notServer
    \/ \E j \in JobIds : JobWatchdogWriteLands(j) /\ UNCHANGED notServer
    \/ \E j \in JobIds : JobWatchdogExits(j) /\ UNCHANGED notServer
    \/ ServerTick /\ UNCHANGED notServer

SpecServer == InitServer /\ [][NextServer]_<< pvars, notServer >>

(***************************************************************************)
(* Properties                                                              *)
(***************************************************************************)
\* nothing of the current run is left to happen: the wrapper has returned or
\* the process has exited, no timer is armed and no write is on its way
Quiescent ==
    /\ run >= 1
    /\ inflight = {}
    /\ wd.pc \notin {"await", "responded"}
    /\ \/ ~alive
       \/ /\ pc = "returned"
          /\ timeoutId # "armed"
          /\ stallCheckInterval # "armed"

\* C1: once the job row's status is completed or failed, no later step of
\* the same run (loop, watchdog callback, progress write) changes the status.
C1_TerminalStatusIsFinal ==
    [][(job.status \in Terminal /\ run' = run) => job'.status = job.status]_vars

\* C2: when a run has come to its end and every fetch and store call of it
\* was answered without a failure, the job row is completed or failed: it is
\* not left in running.
C2_NeverLeftRunning == (Quiescent /\ faults = 0) => job.status \in Terminal

\* the columns the runs persist as counters
JobCounters == {"pages_discovered", "pages_crawled", "duplicates_skipped"}

PageUrls(rows) == { rows[i].normalized_url : i \in 1..Len(rows) }

\* C3: a run that starts with pages already persisted fetches none of them
\* again, and no counter of the job row falls below what the row held when
\* the run started (stated for behaviours in which no call fails).
C3_ResumeIsIdempotent ==
    (run >= 2 /\ Len(prevPages) > 0 /\ faults = 0) =>
        /\ fetched \cap PageUrls(prevPages) = {}
        /\ \A c \in JobCounters : job[c] >= prevJob[c]

NoTwoRowsShareUrl(rows) ==
    \A i, j \in 1..Len(rows) :
        rows[i].normalized_url = rows[j].normalized_url => i = j

\* the host of url, one leading www. dropped, is the host of the job's
\* domain, one leading www. dropped
HostIsJobDomain(url) ==
    /\ url.kind = "abs"
    /\ url.host = job.domain.host
    /\ (IF url.www > 0 THEN url.www - 1 ELSE 0)
          = (IF job.domain.www > 0 THEN job.domain.www - 1 ELSE 0)

InLoop == pc \in {"fetching", "inserting"}

\* C5: the queue never holds a normalized_url twice; every url pushed in this
\* run was pushed once, was at that moment neither in seenUrls nor a key of
\* pagesMap, and is in seenUrls from the push on (the seed, pushed when the
\* queue is created, from the start of the loop on).
C5_FrontierHoldsNoUrlTwice ==
    /\ \A i, j \in 1..Len(queue) :
          queue[i].normalized_url = queue[j].normalized_url => i = j
    /\ \A i, j \in 1..Len(pushed) : pushed[i].url = pushed[j].url => i = j
    /\ \A i \in 1..Len(pushed) : pushed[i].fresh
    /\ \A i \in 1..Len(queue) :
          \E j \in 1..Len(pushed) : pushed[j].url = queue[i].normalized_url
    /\ InLoop => \A i \in 1..Len(pushed) : pushed[i].url \in seenUrls

\* the enqueue loop has met a link to a url already pushed and has pushed
\* another one, which waits in the queue
C5_Witness ==
    /\ InLoop
    /\ Len(pushed) >= 3
    /\ Len(queue) >= 1
    /\ totalDuplicatesSkipped >= 1

\* the first run of the job has returned after writing completed, and no
\* call of it failed
CompletedCleanly ==
    /\ run = 1 /\ pc = "returned" /\ faults = 0
    /\ wd.pc = "idle"
    /\ job.status = "completed"

\* distinct internal links found by the crawl that point at url from another
\* page
EdgesInto(url) == { e \in edges : e[2] = url /\ e[1] # url }

\* C6: when a crawl completes, the internal_links_in persisted for every page
\* is the number of distinct (source page, target page) internal links found
\* during the crawl whose target is that page, links from pages crawled after
\* the target included.
C6_InCountsAreDistinctEdges ==
    CompletedCleanly =>
        \A i \in 1..Len(pages) :
            pages[i].internal_links_in
               = Cardinality(EdgesInto(pages[i].normalized_url))

\* distinct in-scope urls the page at url links to
EdgesFrom(url) == { e \in edges : e[1] = url }

\* C7: the links of one page that canonicalize to the same in-scope url are
\* one edge: the target has one row in pages, the source page's
\* internal_links_out counts it once, and an external destination that each
\* referring page links once has one registry entry whose occurrences is the
\* number of referring pages (1 when a single page links it).
C7_VariantsCollapseToOneEdge ==
    (run = 1 /\ faults = 0) =>
        /\ NoTwoRowsShareUrl(pages)
        /\ \A i \in 1..Len(pagesMap) :
              pagesMap[i].internal_links_out
                 = Cardinality(EdgesFrom(pagesMap[i].normalized_url))
        /\ \A x \in DOMAIN externalLinksRegistry :
              externalLinksRegistry[x].occurrences
                 = Cardinality(externalLinksRegistry[x].pages_found_on)

\* C8: a run whose loop went longer than STALL_DETECTION_MS without a
\* processed page ends with the job failed and stop_reason stalled; the
\* callback of the MAX_RUNTIME_MS timer reports stop_reason timeout and the
\* stall check reports stalled, never the other's reason.
C8_StalledAndTimeoutAreTold ==
    /\ (Quiescent /\ starved) =>
           job.status = "failed" /\ job.stop_reason = "stalled"
    /\ wd.reason = "timeout" =>
           timeoutId = "fired" /\ wd.payload.stop_reason = "timeout"
    /\ wd.reason = "stalled" =>
           timeoutId # "fired" /\ wd.payload.stop_reason = "stalled"

\* runCrawl is past clearTimeout / clearInterval (crawl.js 643-645) and has
\* not thrown since
PastLoop == pc \in {"reconcile", "registry", "finalWrite"}

\* C9: once runCrawl has left the loop normally, no watchdog callback writes
\* to the job row or exits the process.
C9_WatchdogsDisarmedAfterLoop ==
    [][PastLoop => (wd' = wd /\ alive' = alive)]_vars

\* C10: once the first run of a job has written completed or failed to the
\* job row, no later step of that run changes stop_reason or error_message.
C10_TerminalFieldsSetOnce ==
    [][(job.status \in Terminal /\ run = 1 /\ run' = 1) =>
          /\ job'.stop_reason = job.stop_reason
          /\ job'.error_message = job.error_message]_vars

\* C11: when an exception has escaped runCrawl, runCrawlWithErrorHandling
\* returns without throwing it again, and the update it sends, once the store
\* has applied it, leaves the job row failed with the exception's message as
\* error_message and stop_reason error.
C11_EscapedExceptionFailsJob ==
    [][(pc = "wrapperWrite" /\ pc' # pc /\ run' = run) =>
          /\ pc' = "returned"
          /\ caught # NULL
          /\ faults' = faults =>
                /\ job'.status = "failed"
                /\ job'.failed_at # NULL
                /\ job'.error_message = caught
                /\ job'.stop_reason = "error"]_vars

\* the wrapper has returned after its write for a rejected select of the
\* job's pages was applied
C11_Witness ==
    /\ pc = "returned"
    /\ caught = "pages select rejected"
    /\ job.status = "failed"
    /\ job.stop_reason = "error"
    /\ job.error_message = caught

\* C12: when the completed write of a run is applied, the stop_reason it
\* leaves is the page-limit reason if the loop ended with pagesCrawled at
\* MAX_PAGES and entries still in the queue; and if the loop ended with
\* pagesCrawled below MAX_PAGES, the queue is empty and the stop_reason is
\* Queue exhausted.
C12_StopReasonsAreDistinct ==
    [][(pc = "finalWrite" /\ pc' = "returned" /\ faults' = faults) =>
          /\ job'.status = "completed"
          /\ (pagesCrawled >= MAX_PAGES /\ Len(queue) > 0) =>
                job'.stop_reason = "MAX_PAGES limit reached"
          /\ pagesCrawled < MAX_PAGES =>
                Len(queue) = 0 /\ job'.stop_reason = "Queue exhausted"]_vars

\* a run has ended at the page limit with an entry left in the queue
C12_Witness ==
    /\ pc = "returned"
    /\ pagesCrawled = MAX_PAGES /\ Len(queue) > 0
    /\ job.status = "completed"
    /\ job.stop_reason = "MAX_PAGES limit reached"

\* the step in which the fetch of the current entry ends without a page
\* (fetchPage threw, or what it returned was no HTML)
FetchFails ==
    /\ pc = "fetching" /\ run' = run
    /\ cur' # cur /\ pc' # "inserting"

\* C13: when the fetch of a queue entry fails, no page is stored for it,
\* nothing is pushed, the entry is in the queue no more and is not the next
\* one fetched (no url is fetched twice in a run), the job row is not
\* touched and the loop goes on with the next entry or ends normally.
C13_PageFailureDoesNotFailJob ==
    [][FetchFails =>
          /\ pages' = pages
          /\ Keys(pagesMap') = Keys(pagesMap)
          /\ ~Has(pagesMap', cur.normalized_url)
          /\ pushed' = pushed /\ seenUrls' = seenUrls
          /\ \A i \in 1..Len(queue') :
                queue'[i].normalized_url # cur.normalized_url
          /\ job' = job
          /\ pc' \in {"fetching", "reconcile", "registry"}
          /\ pc' = "fetching" => cur'.normalized_url \notin fetched]_vars

\* a run in which a fetch failed has gone on to crawl other pages and has
\* written completed
C13_Witness ==
    /\ run = 1 /\ pc = "returned"
    /\ job.status = "completed"
    /\ Cardinality(fetched) > Len(pagesMap)
    /\ Len(pages) >= 2

\* C14: when a run resumed on a completed job has completed in its turn, every
\* external target the job row held when the run started is still in
\* crawl_jobs.external_links, with at least the occurrences it had.
C14_RegistryGrowsAcrossRuns ==
    (/\ run = 2 /\ pc = "returned" /\ faults = 0
     /\ wd.pc = "idle"
     /\ prevJob.status = "completed"
     /\ job.status = "completed")
        => \A x \in DOMAIN prevJob.external_links :
              /\ x \in DOMAIN job.external_links
              /\ job.external_links[x].occurrences
                    >= prevJob.external_links[x].occurrences

\* the pages extractPageContent was called for in this extraction run
FetchedPages == { fetchLog[k].page : k \in 1..Len(fetchLog) }

\* the normalized_url of the pages of the crawl job
CrawledUrls == { crawledPages[k].normalized_url : k \in 1..Len(crawledPages) }

\* an extraction run has ended completed and no call of it failed
ExtractionCompletedCleanly ==
    /\ xrun >= 1 /\ xpc = "returned" /\ xfaults = 0
    /\ extractionJob.status = "completed"

\* row is the row of a job that completed with every page of the crawl job
\* extracted and none failed
FullySuccessful(row) ==
    /\ DOMAIN row # {}
    /\ row.status = "completed"
    /\ row.pages_failed = 0
    /\ row.pages_extracted = Len(crawledPages)

\* C15: a completed run with onlyMissing has called extractPageContent for
\* exactly the pages of the crawl job with no page_content row when it
\* started, and for none when the run before it was fully successful; a
\* completed run without onlyMissing has called it for every page.
C15_OnlyMissingFetchesTheMissing ==
    ExtractionCompletedCleanly =>
        /\ ~extractionJob.only_missing => FetchedPages = CrawledUrls
        /\ extractionJob.only_missing =>
              FetchedPages = CrawledUrls \ DOMAIN prevContent
        /\ (extractionJob.only_missing /\ FullySuccessful(prevExtractionJob))
              => fetchLog = << >>

\* C16: a run that found no page to extract (the crawl job has none, or
\* the onlyMissing filter left none) has called extractPageContent for
\* nothing and has written completed with pages_total, pages_extracted and
\* pages_failed all 0.
C16_NothingToExtractCompletesWithZeros ==
    (/\ xrun >= 1 /\ xpc = "returned" /\ xfaults = 0
     /\ Len(extractPages) = 0)
        => /\ fetchLog = << >>
           /\ extractionJob.status = "completed"
           /\ extractionJob.failed_at = NULL
           /\ extractionJob.pages_extracted = 0
           /\ extractionJob.pages_failed = 0
           /\ extractionJob.pages_total = 0

\* the async function of page p leaves the await it is at
WorkerLeaves(p, at) ==
    /\ xrun' = xrun
    /\ p \in DOMAIN workers /\ workers[p].pc = at
    /\ workers'[p].pc # at

\* the async function of page p ends in its catch, and nothing else changes
FailsThisPageOnly(p) ==
    /\ workers'[p].result = "failed"
    /\ pagesFailed' = pagesFailed + 1
    /\ pagesExtracted' = pagesExtracted
    /\ Len(failedUrls') = Len(failedUrls) + 1
    /\ failedUrls'[Len(failedUrls')].url = FetchUrl(extractPages[p])
    /\ \A q \in DOMAIN workers \ {p} : workers'[q] = workers[q]
    /\ extractionJob' = extractionJob
    /\ xpc' = "batch"

\* C17: an upsert that returns an error sends the worker to the delete of
\* the record under its key and then to the insert (a delete that returns an
\* error included); the page is not failed on the way.  An insert that
\* succeeds stores the record and leaves the page unfailed; an insert that
\* fails puts exactly this page in pages_failed and failed_urls, with a
\* message made of the insert's and the upsert's error, and leaves the job
\* row alone.  (A call that rejects ends in the same per-page catch.)
C17_UpsertFallsBackToDeleteInsert ==
    [][\A p \in 1..Len(extractPages) :
          /\ WorkerLeaves(p, "upsert") =>
                \/ workers'[p].pc = "verify" /\ pagesFailed' = pagesFailed
                \/ /\ workers'[p].pc = "delete"
                   /\ workers'[p].insertError # NULL
                   /\ workers'[p].key = workers[p].key
                   /\ pagesFailed' = pagesFailed
                   /\ failedUrls' = failedUrls
                \/ /\ FailsThisPageOnly(p)
                   /\ failedUrls'[Len(failedUrls')].error
                         = << "upsert rejected" >>
          /\ WorkerLeaves(p, "delete") =>
                \/ /\ workers'[p].pc = "insert"
                   /\ workers'[p].insertError = workers[p].insertError
                   /\ pagesFailed' = pagesFailed
                   /\ failedUrls' = failedUrls
                   /\ xfaults' = xfaults =>
                         workers[p].key \notin DOMAIN page_content'
                \/ /\ FailsThisPageOnly(p)
                   /\ failedUrls'[Len(failedUrls')].error
                         = << "delete rejected" >>
          /\ WorkerLeaves(p, "insert") =>
                \/ /\ workers'[p].pc = "verify"
                   /\ workers[p].key \in DOMAIN page_content'
                   /\ pagesFailed' = pagesFailed
                   /\ failedUrls' = failedUrls
                \/ /\ FailsThisPageOnly(p)
                   /\ LET message == failedUrls'[Len(failedUrls')].error
                      IN  \/ message = << "insert rejected" >>
                          \/ /\ \E k \in DOMAIN message :
                                   message[k] = "insert error"
                             /\ \E k \in DOMAIN message :
                                   message[k] = workers[p].insertError
                             /\ workers[p].insertError = "upsert error"]_xvars

\* a run in which the upsert and the insert of one page both failed has
\* completed with that page alone in pages_failed
C17_Witness ==
    /\ xpc = "returned"
    /\ extractionJob.status = "completed"
    /\ extractionJob.pages_failed = 1
    /\ extractionJob.pages_extracted = 2
    /\ Len(failedUrls) = 1
    /\ failedUrls[1].error = << "upsert failed, insert also failed",
                                "insert error", "Original", "upsert error" >>

\* the pages whose extraction has been started and has not settled
InFlight == { p \in DOMAIN workers : workers[p].pc \notin {"idle", "settled"} }

\* the number of the batch page p of extractPages is in, from 0
BatchOf(p) == (p - 1) \div BATCH_SIZE

\* C18: never more than BATCH_SIZE extractions are in flight, and a page is
\* started only when every page of every earlier batch has settled.
C18_BatchesAreBarriers ==
    /\ Cardinality(InFlight) <= BATCH_SIZE
    /\ \A p, q \in DOMAIN workers :
          (workers[p].pc # "idle" /\ BatchOf(q) < BatchOf(p))
             => workers[q].pc = "settled"

\* the second batch is in flight after a first batch of which one page
\* failed and one was extracted
C18_Witness ==
    /\ xpc = "batch" /\ batchStart = BATCH_SIZE
    /\ \E p \in DOMAIN workers : BatchOf(p) = 1 /\ workers[p].pc = "upsert"
    /\ \E q \in DOMAIN workers : BatchOf(q) = 0 /\ workers[q].result = "failed"
    /\ \E q \in DOMAIN workers :
          BatchOf(q) = 0 /\ workers[q].result = "extracted"

\* C19: no two pages of an extraction run have their content stored under
\* the same page_content key.
C19_WorkersWriteDisjointKeys ==
    xfaults = 0 =>
        \A p, q \in DOMAIN workers :
            (/\ p # q
             /\ workers[p].result = "extracted"
             /\ workers[q].result = "extracted")
                => workers[p].key # workers[q].key

\* the pages of this run whose async function ended in its catch
FailedPages == { p \in DOMAIN workers : workers[p].result = "failed" }

\* what the catch of runContentExtraction can hold: the errors of the steps
\* of the job itself
JobLevelErrors ==
    { "pages select rejected", "Failed to fetch pages",
      "page_content select rejected",
      "content_extraction_jobs update rejected",
      "page_content count rejected" }

\* C20: the failure of a page changes neither the place of the run nor the
\* job row and leaves the other pages as they are; the run reaches its
\* count and its completed update only with every page settled, and writes
\* completed with the failed pages in pages_failed and failed_urls and the
\* others in pages_extracted; the job is failed only with the error of a
\* step of the job itself as error_message.
C20_PageErrorsDoNotEscalate ==
    /\ [](/\ xpc \in {"count", "finalWrite"} =>
                /\ \A p \in 1..Len(extractPages) : workers[p].pc = "settled"
                /\ pagesFailed = Cardinality(FailedPages)
                /\ pagesExtracted + pagesFailed = Len(extractPages)
                /\ { failedUrls[k].url : k \in 1..Len(failedUrls) }
                      = { FetchUrl(extractPages[p]) : p \in FailedPages }
          /\ (xrun >= 1 /\ extractionJob.status = "failed") =>
                /\ extractError \in JobLevelErrors
                /\ extractionJob.error_message = extractError)
    /\ [][/\ (xrun' = xrun /\ pagesFailed' # pagesFailed) =>
                /\ xpc' = "batch" /\ extractError' = NULL
                /\ extractionJob' = extractionJob
                /\ \E p \in DOMAIN workers :
                      /\ workers[p].result = NULL
                      /\ workers'[p].result = "failed"
                      /\ \A q \in DOMAIN workers \ {p} :
                            workers'[q] = workers[q]
          /\ (xpc = "finalWrite" /\ xpc' = "returned"
                 /\ xfaults' = xfaults) =>
                /\ extractionJob'.status = "completed"
                /\ extractionJob'.pages_total = Len(extractPages)
                /\ extractionJob'.pages_failed = Cardinality(FailedPages)
                /\ extractionJob'.pages_extracted
                      = Len(extractPages) - Cardinality(FailedPages)
                /\ FailedPages # {} =>
                      extractionJob'.failed_urls = failedUrls]_xvars

\* a run in which extractPageContent threw for a page of the first batch
\* has gone through the second batch and has completed
C20_Witness ==
    /\ xpc = "returned"
    /\ extractionJob.status = "completed"
    /\ extractionJob.pages_total = 3
    /\ extractionJob.pages_failed = 1
    /\ extractionJob.pages_extracted = 2
    /\ workers[1].result = "failed"
    /\ workers[3].result = "extracted"
    /\ failedUrls[1].error = << "extractPageContent threw" >>

\* C21: once runContentExtractionWithErrorHandling has returned (every call
\* it made has returned, at most one of them with an error), the row of the
\* extraction job is completed or failed, not running.
C21_ExtractionJobEndsTerminal ==
    (xrun >= 1 /\ xpc = "returned" /\ xfaults <= 1)
        => extractionJob.status \in Terminal


\* urlA and urlB differ in the component c and in nothing else
OnlyDiffer(c) == Differences(urlA, urlB) = {c}

Canonicalized == ustep \in {"normalized", "renormalized", "classified"}

Recanonicalized == ustep \in {"renormalized", "classified"}

\* C22: normalizeUrl is idempotent: for every absolute URL whose normalized
\* form is not null, normalizing that form again returns it unchanged, also
\* when the host carries the "www." prefix more than once.
C22_CanonicalizeIsIdempotent ==
    (Recanonicalized /\ normA # Null) => renormA = normA

PAGINATION_PARAMS == {"page", "p", "pagenum", "paged", "offset", "start"}

IsTracking(key) == key \in {"utm_source", "fbclid", "gclid"}

\* C23: two URLs that differ only in the value of one pagination parameter
\* (page, p, pagenum, paged, offset, start) have different normalized URLs.
C23_PaginationDistinguishes ==
    ( /\ Canonicalized
      /\ OnlyDiffer("search")
      /\ Len(urlA.search) = 1 /\ Len(urlB.search) = 1
      /\ urlA.search[1].key = urlB.search[1].key
      /\ urlA.search[1].key \in PAGINATION_PARAMS )
        => normA # normB

\* the query without its tracking parameters
WithoutTracking(search) ==
    SelectSeq(search, LAMBDA prm : ~IsTracking(prm.key))

\* the path without the empty segments that duplicate separators leave
WithoutDuplicateSeparators(path) ==
    LET inner == SelectSeq(Front(path), LAMBDA seg : seg # "")
    IN  IF inner = << >> /\ Last(path) = "" THEN Home
        ELSE inner \o << Last(path) >>

DifferByFragment == OnlyDiffer("hash")

DifferByDefaultPort ==
    /\ OnlyDiffer("port")
    /\ urlB.port = ""
    /\ \/ urlA.protocol = "http:" /\ urlA.port = "80"
       \/ urlA.protocol = "https:" /\ urlA.port = "443"

DifferByTrackingParameter ==
    /\ OnlyDiffer("search")
    /\ WithoutTracking(urlA.search) = WithoutTracking(urlB.search)

DifferByLeadingWww ==
    /\ OnlyDiffer("www")
    /\ urlA.www = urlB.www + 1

DifferByTrailingSlash ==
    /\ OnlyDiffer("path")
    /\ urlB.path # Home
    /\ urlA.path = urlB.path \o << "" >>

DifferByDuplicateSeparators ==
    /\ OnlyDiffer("path")
    /\ urlA.path # urlB.path
    /\ WithoutDuplicateSeparators(urlA.path) = urlB.path

\* C24: two URLs that differ only by the fragment, by an explicit default
\* port, by a tracking parameter, by a leading "www.", by a trailing slash on
\* a path other than the root, or by duplicate path separators have the same
\* normalized URL.
C24_EquivalentUrlsCollapse ==
    ( /\ Canonicalized
      /\ \/ DifferByFragment
         \/ DifferByDefaultPort
         \/ DifferByTrackingParameter
         \/ DifferByLeadingWww
         \/ DifferByTrailingSlash
         \/ DifferByDuplicateSeparators )
        => normA = normB

\* the query without the parameters that are neither tracking nor pagination
WithoutOtherParameters(search) ==
    SelectSeq(search, LAMBDA prm : IsTracking(prm.key)
                                     \/ prm.key \in PAGINATION_PARAMS)

DifferByOtherParameter ==
    /\ OnlyDiffer("search")
    /\ WithoutOtherParameters(urlA.search) = WithoutOtherParameters(urlB.search)
    /\ \E prm \in {urlA.search[i] : i \in DOMAIN urlA.search} :
          ~IsTracking(prm.key) /\ prm.key \notin PAGINATION_PARAMS

C26_ScopeDecisionsAgree ==
    (ustep = "classified" /\ scope.normalized # Null)
        => /\ scope.seed = ~scope.isExternal
           /\ scope.dequeue = ~scope.isExternal
           /\ scope.enqueue = ~scope.isExternal
           /\ ~scope.isExternal
                => scope.normalized.host = scope.primaryDomain.host

C26_Witness ==
    /\ ustep = "classified"
    /\ urlA.host = "blog.example.com"
    /\ scope.primaryDomain = [kind |-> "domain", www |-> 0,
                              host |-> "example.com"]
    /\ scope.normalized = normA
    /\ scope.isExternal /\ ~scope.seed /\ ~scope.dequeue


\* the primary domain runCrawl derives from the domain of the job
CrawlPrimaryDomain(domain) ==
    extractPrimaryDomain(IF domain.kind = "host" THEN SeedUrl(domain)
                         ELSE domain)

\* the normalized_url of the stored rows that are in the scope of the job
InScopeStored ==
    { storedPages[i].normalized_url : i \in
        { j \in DOMAIN storedPages :
            /\ storedPages[j].normalized_url # Null
            /\ extractPrimaryDomain(storedPages[j].normalized_url)
                 = CrawlPrimaryDomain(storedJob.domain) } }

StoreAnswered ==
    /\ gstep = "answered"
    /\ response.error \notin
         {"Job not found", "Failed to fetch pages", "Failed to get pages"}

\* C27: when both selects succeed, GET /crawl/:jobId/pages answers with
\* exactly one entry for each distinct normalized_url among the stored pages
\* of the primary domain: none dropped, none repeated, none out of scope.
C27_PagesReadIsExactlyTheInScopePages ==
    StoreAnswered
        => /\ response.status = 200
           /\ { response.pages[i].normalized_url : i \in DOMAIN response.pages }
                = InScopeStored
           /\ \A i, j \in DOMAIN response.pages :
                response.pages[i].normalized_url
                   = response.pages[j].normalized_url => i = j


\* the seed cannot be parsed, cannot be canonicalized, or its canonical form
\* is not in its own primary domain
SeedIsRejected ==
    \/ extractPrimaryDomain(SeedUrl(job.domain)) = Null
    \/ normalizeUrl(SeedUrl(job.domain)) = Null
    \/ extractPrimaryDomain(normalizeUrl(SeedUrl(job.domain)))
         # extractPrimaryDomain(SeedUrl(job.domain))

\* C28: a run whose seed is rejected fetches nothing, stores no page and arms
\* neither watchdog, and once it has returned without a failed call the job
\* is failed with stop_reason invalid_seed_url.
C28_RejectedSeedFailsWithoutCrawling ==
    (run >= 1 /\ SeedIsRejected)
        => /\ fetched = {}
           /\ pages = prevPages
           /\ timeoutId = "none" /\ stallCheckInterval = "none"
           /\ wd = NoWatchdog
           /\ (pc = "returned" /\ faults = 0)
                => /\ job.status = "failed"
                   /\ job.stop_reason = "invalid_seed_url"

C28_Witness ==
    /\ run >= 1 /\ pc = "returned" /\ faults = 0
    /\ job.domain.kind = "host" /\ job.domain.www = 2
    /\ SeedIsRejected
    /\ job.status = "failed" /\ job.stop_reason = "invalid_seed_url"
    /\ fetched = {} /\ pages = << >>


\* C29: a crawl job or an extraction job whose stored status is failed
\* carries a stop_reason or an error_message in the same row.
C29_FailedJobsCarryAReason ==
    /\ job.status = "failed"
         => (job.stop_reason # NULL \/ job.error_message # NULL)
    /\ (xrun >= 1 /\ extractionJob.status = "failed")
         => extractionJob.error_message # NULL

C29_Witness ==
    /\ xrun >= 1 /\ xpc = "returned"
    /\ extractionJob.status = "failed"
    /\ extractionJob.error_message = "Failed to fetch pages"


\* the entries of the scripts of a page that hold JSON, in document order,
\* each element of an array on its own
RECURSIVE ValidEntries(_)
ValidEntries(elems) ==
    IF elems = << >> THEN << >>
    ELSE (IF Head(elems).kind \in {"object", "array"}
          THEN Head(elems).items ELSE << >>) \o ValidEntries(Tail(elems))

HasMalformed(elems) ==
    \E i \in DOMAIN elems : elems[i].kind \in {"blank", "malformed"}

\* C30: the schema of an extracted page holds the entries of every JSON-LD
\* script of the page that parses, in document order, whatever scripts of
\* the page or of the other pages of the batch fail to parse; and every page
\* of a settled batch has been extracted.
C30_MalformedJsonLdIsIsolated ==
    /\ \A i \in DOMAIN content :
          content[i] # Unset
             => content[i].schema.json_ld = ValidEntries(scripts[i])
    /\ sstep = "settled" => \A i \in DOMAIN content : content[i] # Unset

C30_Witness ==
    /\ sstep = "settled"
    /\ scripts[1] = << [kind |-> "malformed", items |-> << >>],
                       [kind |-> "array", items |-> << "Article", "Person" >>] >>
    /\ content[1].schema.json_ld = << "Article", "Person" >>
    /\ scripts[2] = << [kind |-> "object", items |-> << "Organization" >>] >>
    /\ content[2].schema.json_ld = << "Organization" >>


\* the normalized urls of the entries of a queue, from head to tail
QueueUrls(q) == [i \in DOMAIN q |-> q[i].normalized_url]

\* the urls this step pushed to the queue, in the order of the pushes
NewPushes ==
    [i \in 1..(Len(pushed') - Len(pushed)) |-> pushed'[Len(pushed) + i].url]

\* This step left the queue in first-in first-out order: what stays is what
\* follows position k of the old queue extended by the pushes of the step,
\* and a fetch the step starts is the fetch of the entry at position k.
FifoStep ==
    LET all == QueueUrls(queue) \o NewPushes
    IN  \E k \in 0..Len(all) :
           /\ QueueUrls(queue') = SubSeq(all, k + 1, Len(all))
           /\ pagesCrawled' = pagesCrawled + 1
                => (k >= 1 /\ all[k] = cur'.normalized_url)

\* The pushes of this step are the children of a page that has been
\* classified and whose row insert has returned.
ChildrenAfterParent ==
    Len(pushed') > Len(pushed)
       => /\ pc = "inserting"
          /\ Has(pagesMap, cur.normalized_url)
          /\ \A i \in Len(pushed) + 1 .. Len(pushed') :
                << cur.normalized_url, pushed'[i].url >> \in edges

QueueDepthsAreLevelled ==
    /\ \A i, j \in DOMAIN queue : i <= j => queue[i].depth <= queue[j].depth
    /\ \A i, j \in DOMAIN queue : queue[j].depth - queue[i].depth \in {-1, 0, 1}

DepthInBounds(depth) == 0 <= depth /\ depth <= MAX_DEPTH

\* C32: every entry of the queue, the entry being processed and every
\* stored page has a depth from 0 to MAX_DEPTH: the links of a page at depth
\* MAX_DEPTH are not enqueued, so no entry is dropped for its depth when it
\* leaves the queue.
C32_DepthIsBounded ==
    /\ \A i \in DOMAIN queue :
          /\ DepthInBounds(queue[i].depth)
          /\ DequeueCheck(queue[i], pagesMap) # "depth"
    /\ pc \in {"fetching", "inserting"} => DepthInBounds(cur.depth)
    /\ \A i \in DOMAIN pages : DepthInBounds(pages[i].depth)

C32_Witness ==
    /\ site = "wide" /\ run = 1 /\ pc = "fetching"
    /\ cur.normalized_url = Example(0, <<"b">>, << >>, "")
    /\ \E i \in DOMAIN pages :
          /\ pages[i].normalized_url = Example(0, <<"a">>, << >>, "")
          /\ pages[i].depth = MAX_DEPTH
    /\ << Example(0, <<"a">>, << >>, ""), Example(0, <<"d">>, << >>, "") >>
          \in edges
    /\ Example(0, <<"d">>, << >>, "") \notin seenUrls


\* the normalized targets of the links of the page just fetched that are
\* classified external, in document order
ExternalTargets(links, baseUrl) ==
    LET ext == SelectSeq(links, LAMBDA link :
                  /\ ~shouldSkipUrl(link)
                  /\ resolveUrl(link, baseUrl) # Null
                  /\ normalizeAndClassifyUrl(link, baseUrl,
                                             primaryDomain).isExternal)
    IN  [i \in DOMAIN ext |->
            normalizeAndClassifyUrl(ext[i], baseUrl, primaryDomain).normalized]

Occurrences(registry, target) ==
    IF target \in DOMAIN registry THEN registry[target].occurrences ELSE 0

\* the step that classifies the links of a fetched page counts each external
\* link once, on the page and in the registry, with the page as referrer
ExternalLinksAreCounted ==
    (pc = "fetching" /\ pc' = "inserting")
       => LET targets == ExternalTargets(
                            SiteLinks(site, normalizeUrl(cur'.fetchUrl)),
                            cur'.fetchUrl)
              page == CHOOSE p \in { pagesMap'[i] : i \in DOMAIN pagesMap' } :
                         p.normalized_url = cur.normalized_url
          IN  /\ page.external_links_out = Len(targets)
              /\ \A i \in DOMAIN targets :
                    /\ targets[i] \in DOMAIN externalLinksRegistry'
                    /\ cur.normalized_url \in
                          externalLinksRegistry'[targets[i]].pages_found_on
                    /\ Occurrences(externalLinksRegistry', targets[i])
                          = Occurrences(externalLinksRegistry, targets[i])
                            + Cardinality({ j \in DOMAIN targets :
                                              targets[j] = targets[i] })

\* no target of an external link is in the queue, in the seen set or in the
\* page map, and an entry has at least as many occurrences as referrers
ExternalTargetsStayOutside ==
    \A target \in DOMAIN externalLinksRegistry :
       /\ \A i \in DOMAIN queue : queue[i].normalized_url # target
       /\ target \notin seenUrls
       /\ ~Has(pagesMap, target)
       /\ pc \in {"fetching", "inserting"} => cur.normalized_url # target
       /\ externalLinksRegistry[target].occurrences
             >= Cardinality(externalLinksRegistry[target].pages_found_on)
       /\ externalLinksRegistry[target].pages_found_on # {}

\* C33: an external link is counted and not followed: it adds 1 to the
\* external_links_out of the page, 1 to the occurrences of its target in
\* the registry and the page to the referrers of the target; the target
\* never enters the queue or the page map; occurrences >= referrers.
C33_ExternalLinksCountedNotFollowed ==
    /\ []ExternalTargetsStayOutside
    /\ [][ExternalLinksAreCounted]_vars

C33_Witness ==
    /\ site = "wide" /\ run = 1 /\ pc = "inserting"
    /\ cur.normalized_url = Example(0, <<"b">>, << >>, "")
    /\ Occurrences(externalLinksRegistry, ExternalOrg) = 1
    /\ externalLinksRegistry[BlogSub].pages_found_on
          = { Example(0, Home, << >>, "") }
    /\ ~Has(pagesMap, ExternalOrg)


\* this step leaves the while loop of runCrawl normally
LoopEnds ==
    /\ pc \in {"loading", "fetching", "inserting"}
    /\ pc' \in {"reconcile", "registry"}

\* C34: the fail-safe ends no crawl the loop condition would have continued:
\* whenever the loop ends, by its condition or by the break of the
\* fail-safe, the queue is empty or pagesCrawled has reached MAX_PAGES; and
\* the stop_reason of the fail-safe is never stored.
C34_FailSafeIsRedundant ==
    /\ [][LoopEnds => (Len(queue') = 0 \/ pagesCrawled' >= MAX_PAGES)]_vars
    /\ [](job.stop_reason # "No new pages added")

\* a run that the break of the fail-safe ended
C34_Witness ==
    /\ run = 1 /\ pc = "returned" /\ faults = 0
    /\ iterationsWithoutNewPages >= MAX_ITERATIONS_WITHOUT_NEW_PAGES
    /\ pagesCrawled < MAX_PAGES /\ Len(queue) = 0
    /\ job.status = "completed" /\ job.stop_reason = "Queue exhausted"


\* C35: when a watchdog of one job has ended the server process, no other job
\* of that process is left with the stored status 'running'
C35_JobsAreIsolated ==
    ~serverAlive =>
        \A k \in JobIds \ {exitedBy} : crawls[k].status # "running"


\* the current run is not the first one of the job and has returned from its
\* 'completed' write without an exception
ResumedRunCompleted ==
    /\ run >= 2
    /\ pc = "returned" /\ caught = NULL
    /\ job.status = "completed"

\* C36: after a resumed run has completed, every page row stored before the
\* resume has in-counts at least as large as the ones stored before the resume
C36_ResumeKeepsInCounts ==
    ResumedRunCompleted =>
        \A i \in 1..Len(prevPages) :
            /\ pages[i].normalized_url = prevPages[i].normalized_url
            /\ pages[i].internal_links_in >= prevPages[i].internal_links_in
            /\ pages[i].external_links_in >= prevPages[i].external_links_in


\* C37: a run with onlyMissing calls extractPageContent for no page that had
\* a page_content row when the run started, whatever the select of the
\* existing rows answered
C37_OnlyMissingNeverRefetches ==
    (xrun >= 1 /\ extractionJob.only_missing) =>
        FetchedPages \cap DOMAIN prevContent = {}


\* C38: when a run has returned from its 'completed' write, the stored
\* pages_discovered of the job is the number of page rows stored for it
C38_PagesDiscoveredCountsStoredRows ==
    (/\ run >= 1 /\ pc = "returned" /\ caught = NULL
     /\ job.status = "completed")
        => job.pages_discovered = Len(pages)


\* a step of a run that calls fetchPage
IssuesFetch ==
    /\ run' = run
    /\ pc' = "fetching"
    /\ cur' # cur

\* the page rows inserted by the current run
PagesCreated == Len(pages) - Len(prevPages)

\* C39: pagesCrawled goes up by one in exactly the steps that call fetchPage,
\* which are steps of the one loop of the run (so no second fetch is issued
\* while one is awaited); the rows created by the run never outnumber
\* pagesCrawled, pagesCrawled never exceeds MAX_PAGES, and a run fetches at
\* most MAX_PAGES URLs
C39_CrawledCountIsBounded ==
    /\ [](run >= 1 =>
            /\ PagesCreated <= pagesCrawled
            /\ pagesCrawled <= MAX_PAGES
            /\ Cardinality(fetched) = pagesCrawled)
    /\ [][run' = run =>
            IF IssuesFetch
            THEN /\ pagesCrawled' = pagesCrawled + 1
                 /\ pc \in {"loading", "fetching", "inserting"}
                 /\ pc = "fetching" => cur.fetchUrl = Null
            ELSE pagesCrawled' = pagesCrawled]_vars

\* a run has called fetchPage MAX_PAGES times, one of the calls gave no page,
\* and the loop has ended with entries left in the queue
C39_Witness ==
    /\ run = 1 /\ pc = "returned"
    /\ pagesCrawled = MAX_PAGES
    /\ PagesCreated < pagesCrawled
    /\ Len(queue) > 0


\* the pages of the run whose async function has returned
SettledPages == { p \in DOMAIN workers : workers[p].pc = "settled" }

\* the job row carries the counters of a progress or completed update
HasCounts(row) == row.last_activity_at # NULL \/ row.completed_at # NULL

\* the store has applied the progress update sent after a batch
ProgressApplied ==
    /\ xpc = "progress" /\ xpc' \in {"delay", "count"}
    /\ xfaults' = xfaults

\* a run that had pages to extract has returned from its completed update
BatchesCompleted ==
    /\ xrun >= 1 /\ xpc = "returned"
    /\ Len(extractPages) > 0
    /\ extractionJob.status = "completed"

=============================================================================
